---- MODULE Spec2Model ----
(***************************************************************************)
(* A model of independent leaves of the repository:                        *)
(*   - MessageSigningService (generate / sign / getPublicKey / rotate an   *)
(*     EC key pair kept in a saved-objects store),                         *)
(*   - the trained-models HTTP route handlers,                             *)
(*   - the Set*Chrome helpers and reverseArray,                            *)
(*   - CasesProvider's context value and what it renders,                  *)
(*   - SloEditForm's submit handler and create-rule checkbox,              *)
(*   - the content-management Table's selection and delete button,         *)
(*   - AlertsByStatus's total above the donuts,                            *)
(*   - MissingEncryptionKeyCallout and its Dismiss button,                 *)
(*   - TestRunsTable's page and sort state and its row click.              *)
(* Each leaf has its own specification over its own variables; the         *)
(* variables of the other leaves stay at their initial values.             *)
(***************************************************************************)
EXTENDS Integers, Sequences, FiniteSets, TLC

VARIABLES
    \* ---- MessageSigningService
    store,        \* key-pair saved objects, oldest first (created_at ascending)
    soSeq,        \* number of saved objects created so far (ids are 1..soSeq)
    keySeq,       \* number of key pairs generated by generateKeyPairSync so far
    canEncrypt,   \* appContextService.getEncryptedSavedObjectsSetup()?.canEncrypt
    call,         \* per caller: the service call in flight and its locals
    last,         \* per caller: the outcome of its most recently finished call
    createLog,    \* history: every successful soClient.create, with canEncrypt then
    usedPairs,    \* history: key pairs returned by generateKeyPair to finished calls
    everRotated,  \* history: a rotateKeyPair call has been started
    everFaulted,  \* history: a store operation has failed
    signedWith,   \* history: private key the last sign used, Empty once superseded
    calls,        \* number of service calls begun so far
    openFinders,  \* finders getCurrentKeyPairObj created and did not close
    \* ---- trained-models routes
    request,      \* the request handled last: route, params, query
    responses,    \* the responses the handler returned for it, in order
    escaped,      \* an exception left the handler
    debugLog,     \* what the handler passed to mlLog.debug
    clientLog,    \* history: the client calls made for it, with what each did
    \* ---- Set*Chrome
    chrome,       \* the component rendered last
    trailProp,    \* the trail prop it was given
    arrays,       \* the arrays after the render: the trail first
    docTitle,     \* what it passed to setDocTitle
    breadcrumbs,  \* what it passed to setBreadcrumbs
    \* ---- CasesProvider
    props,        \* the value prop of the last render
    application,  \* what useApplication returned in the last render
    value,        \* the context value: the state of useState
    captured,     \* history: the context value the first render built
    output,       \* what the last render returned, or the error it threw
    lastReady,    \* history: the last application with appId and appTitle set
    \* ---- SloEditForm
    slo,          \* the slo prop: the id of the SLO edited, undefined in create mode
    rules,        \* useFetchRulesForSlo: loading, or rules for the SLO or none
    isChecked,    \* isCreateRuleCheckboxChecked
    isAddRuleFlyoutOpen,
    unmounted,    \* a navigation has left the form
    submit,       \* the handleSubmit call in flight: its position and its constants
    toasts,       \* the toasts shown
    navigations,  \* the urls passed to navigateToUrl
    requests,     \* the create and update requests sent
    submits,      \* number of handleSubmit calls begun
    lastSubmit,   \* history: how the last finished handleSubmit call ended
    \* ---- content-management Table
    tableProps,   \* the props of the last render
    tableOut,     \* what it handed to EuiInMemoryTable: selection, search.toolsLeft
    \* ---- AlertsByStatus
    alertsProps,  \* what the hooks of the last render returned
    alertsTotal,  \* what that render put in the EuiText above the donuts
    \* ---- MissingEncryptionKeyCallout
    encryptionKeyState,  \* useGetActionState().data: not loaded, or canEncrypt
    calloutDismiss,      \* the state of useState
    calloutVisible,      \* the last render returned the callout, not null
    calloutLog,          \* history: what was handled, and whether the callout showed after
    \* ---- TestRunsTable
    pageState,     \* page, the state of useState: index and size
    sortField,
    sortDirection,
    handled,       \* the event handled last: a table change with the state before
                   \* it, or a row click with the row's ping and the target
    pushed         \* what the handler of that event passed to history.push

keyVars == <<store, soSeq, keySeq, canEncrypt, call, last, createLog, usedPairs,
             everRotated, everFaulted, signedWith, calls, openFinders>>

routeVars == <<request, responses, escaped, debugLog, clientLog>>

chromeVars == <<chrome, trailProp, arrays, docTitle, breadcrumbs>>

casesVars == <<props, application, value, captured, output, lastReady>>

sloVars == <<slo, rules, isChecked, isAddRuleFlyoutOpen, unmounted, submit, toasts,
             navigations, requests, submits, lastSubmit>>

tableVars == <<tableProps, tableOut>>

alertsVars == <<alertsProps, alertsTotal>>

calloutVars == <<encryptionKeyState, calloutDismiss, calloutVisible, calloutLog>>

runsVars == <<pageState, sortField, sortDirection, handled, pushed>>

\* the three components added last
widgetVars == <<alertsVars, calloutVars, runsVars>>

vars == <<keyVars, routeVars, chromeVars, casesVars, sloVars, tableVars, widgetVars>>

\* what the actions of one leaf leave alone: the variables of the other leaves
notKeys == <<routeVars, chromeVars, casesVars, sloVars, tableVars, widgetVars>>
notRoutes == <<keyVars, chromeVars, casesVars, sloVars, tableVars, widgetVars>>
notChrome == <<keyVars, routeVars, casesVars, sloVars, tableVars, widgetVars>>
notCases == <<keyVars, routeVars, chromeVars, sloVars, tableVars, widgetVars>>
notSlo == <<keyVars, routeVars, chromeVars, casesVars, tableVars, widgetVars>>
notTable == <<keyVars, routeVars, chromeVars, casesVars, sloVars, widgetVars>>
notWidgets == <<keyVars, routeVars, chromeVars, casesVars, sloVars, tableVars>>
notAlerts == <<notWidgets, calloutVars, runsVars>>
notCallout == <<notWidgets, alertsVars, runsVars>>
notRuns == <<notWidgets, alertsVars, calloutVars>>

(***************************************************************************)
(* Bounds                                                                  *)
(***************************************************************************)
\* service calls begun in one behaviour
MaxCalls == 3

(***************************************************************************)
(* Trained-models routes: values                                           *)
(***************************************************************************)
ModelIds == {"m1", "m2"}
\* request.params.modelId of the route with an optional modelId
NoModelId == ""

\* errors a client call may throw
ClientErrors == {"e403", "e500"}

\* bodies the proxied client calls may resolve to
ClientBodies == {"b1", "b2"}

\* a trained model config; aliases = metadata?.model_aliases ?? []
ModelConfig(id, aliases) ==
    [model_id |-> id, model_aliases |-> aliases, hasPipelines |-> FALSE, pipelines |-> {}]

\* bodies mlClient.getTrainedModels may resolve to: trained_model_configs
TrainedModelConfigs ==
    { <<>>,
      <<ModelConfig("m1", <<>>)>>,
      <<ModelConfig("m1", <<"a1">>), ModelConfig("m2", <<>>)>> }

\* an entry of trained_model_stats; deployment_id "" when deployment_stats is missing
ModelStats(id, deploymentId) == [model_id |-> id, deployment_id |-> deploymentId]

\* bodies mlClient.getTrainedModelsStats may resolve to: trained_model_stats
TrainedModelStats ==
    { <<>>,
      <<ModelStats("m1", "d1")>>,
      <<ModelStats("m1", "d1"), ModelStats("m2", ""), ModelStats("m1", "d2")>> }

PipelineIds == {"m1", "m2", "a1", "d1", "d2"}

\* Maps getModelsPipelines may resolve to: id -> names of its pipelines ({}: no entry)
PipelinesResponses ==
    { [id \in PipelineIds |-> {}],
      [id \in PipelineIds |-> CASE id = "m1" -> {"p1"} [] id = "a1" -> {"p2"}
                                [] id = "d2" -> {"p3"} [] OTHER -> {}],
      [id \in PipelineIds |-> CASE id = "m2" -> {"p1", "p2"} [] id = "d1" -> {"p1"}
                                [] OTHER -> {}] }

\* what an awaited client call does: resolves to body, or throws error
\* (a call that throws has no body: it carries `none`, a body of the call's own kind)
Resolved(body) == [threw |-> FALSE, error |-> "", body |-> body]
Thrown(error, none) == [threw |-> TRUE, error |-> error, body |-> none]
Outcomes(bodies, none) ==
    {Resolved(b) : b \in bodies} \cup {Thrown(e, none) : e \in ClientErrors}
NoPipelines == [id \in PipelineIds |-> {}]

\* wrapError(e) of ../client/error_wrapper, uninterpreted
wrapError(e) == <<"wrapError", e>>

\* response.ok({ body }) and response.customError(...)
ResponseOk(body) == [kind |-> "ok", body |-> body, error |-> <<>>]
ResponseCustomError(err) == [kind |-> "customError", body |-> <<>>, error |-> err]

ClientCall(api, modelId, outcome) == [api |-> api, model_id |-> modelId, outcome |-> outcome]

(***************************************************************************)
(* Trained-models routes: handlers                                         *)
(***************************************************************************)
\* as routeTryCatch, without the catch
routeTryCatch_NoCatch(outcome, body) ==
    IF outcome.threw
    THEN [responses |-> <<>>, escaped |-> TRUE]
    ELSE [responses |-> <<ResponseOk(body)>>, escaped |-> FALSE]

\* try { ...await the call...; return response.ok({ body }) }
\* catch (e) { return response.customError(wrapError(e)) }
routeTryCatch(outcome, body) ==
    IF outcome.threw
    THEN [responses |-> <<ResponseCustomError(wrapError(outcome.error))>>, escaped |-> FALSE]
    ELSE [responses |-> <<ResponseOk(body)>>, escaped |-> FALSE]

\* as pipelinesCatch, throwing the error on to the outer catch
pipelinesCatch_Rethrow(e) == [rethrown |-> TRUE, debug |-> <<>>]

\* catch (e) { mlLog.debug(e) } around the stats and pipelines lookups
pipelinesCatch(e) == [rethrown |-> FALSE, debug |-> <<e>>]

\* as modelDeployments, attributing every deployment to every model
modelDeployments_AnyModel(stats, modelId) ==
    LET deployed == SelectSeq(stats, LAMBDA curr : curr.deployment_id # "")
    IN  [i \in DOMAIN deployed |-> deployed[i].deployment_id]

RECURSIVE modelDeployments(_, _)
\* modelDeploymentsMap[modelId] ?? []: the deployment ids the stats attribute to it
modelDeployments(stats, modelId) ==
    IF stats = <<>> THEN <<>>
    ELSE LET curr == Head(stats)
             rest == modelDeployments(Tail(stats), modelId)
         IN  IF curr.deployment_id = "" \/ curr.model_id # modelId THEN rest
             ELSE <<curr.deployment_id>> \o rest

Range(f) == {f[i] : i \in DOMAIN f}

\* modelIdsAndAliases: ids and aliases of the configs, and every deployment id
modelIdsAndAliases(result, stats) ==
    UNION {{result[i].model_id} \cup Range(result[i].model_aliases) : i \in DOMAIN result}
    \cup {stats[i].deployment_id : i \in {j \in DOMAIN stats : stats[j].deployment_id # ""}}

\* pipelinesResponse.get(id) ?? {}
pipelinesOf(pipelinesResponse, id) ==
    IF id \in DOMAIN pipelinesResponse THEN pipelinesResponse[id] ELSE {}

\* the for loop that sets model.pipelines on every config
withPipelinesSet(result, stats, pipelinesResponse) ==
    [i \in DOMAIN result |->
        LET model == result[i] IN
        [model EXCEPT
           !.hasPipelines = TRUE,
           !.pipelines =
              pipelinesOf(pipelinesResponse, model.model_id)
              \cup UNION {pipelinesOf(pipelinesResponse, alias) :
                             alias \in Range(model.model_aliases)}
              \cup UNION {pipelinesOf(pipelinesResponse, deploymentId) :
                             deploymentId \in Range(modelDeployments(stats, model.model_id))}]]

\* the handler of GET /api/ml/trained_models/{modelId?}, given what its client
\* calls do: [responses, escaped, debug, calls]
getTrainedModelsHandler(modelId, withPipelines, models, stats, pipelines) ==
    LET result == models.body
        call1 == <<ClientCall("getTrainedModels", modelId, models)>>
        call2 == <<ClientCall("getTrainedModelsStats", modelId, stats)>>
        call3 == <<ClientCall("getModelsPipelines", modelId, pipelines)>>
        \* the inner try block: what it leaves in result, or the error it throws
        inner ==
            IF ~withPipelines
            THEN [threw |-> FALSE, error |-> "", result |-> result, calls |-> <<>>]
            ELSE IF stats.threw
            THEN [threw |-> TRUE, error |-> stats.error, result |-> result, calls |-> call2]
            ELSE IF pipelines.threw
            THEN [threw |-> TRUE, error |-> pipelines.error, result |-> result,
                  calls |-> call2 \o call3]
            ELSE [threw |-> FALSE, error |-> "",
                  result |-> withPipelinesSet(result, stats.body, pipelines.body),
                  calls |-> call2 \o call3]
        caught == IF inner.threw THEN pipelinesCatch(inner.error)
                  ELSE [rethrown |-> FALSE, debug |-> <<>>]
    IN  IF models.threw
        THEN routeTryCatch(models, <<>>) @@ [debug |-> <<>>, calls |-> call1]
        ELSE IF caught.rethrown
        THEN routeTryCatch(Thrown(inner.error, <<>>), <<>>)
                @@ [debug |-> caught.debug, calls |-> call1 \o inner.calls]
        ELSE routeTryCatch(models, inner.result)
                @@ [debug |-> caught.debug, calls |-> call1 \o inner.calls]

\* the handler of GET /api/ml/trained_models/{modelId}/pipelines: the body is
\* [...result].map(([id, pipelines]) => ({ model_id: id, pipelines }))
getPipelinesBody(result) ==
    {[model_id |-> id, pipelines |-> result[id]] : id \in {i \in DOMAIN result : result[i] # {}}}

\* a handler that awaits one client call and answers with what it resolved to:
\* [responses, escaped, debug, calls]
proxyHandler(api, modelId, outcome) ==
    routeTryCatch(outcome, outcome.body)
       @@ [debug |-> <<>>, calls |-> <<ClientCall(api, modelId, outcome)>>]

Request(route, modelId, withPipelines) ==
    [route |-> route, modelId |-> modelId, withPipelines |-> withPipelines]

GetTrainedModels ==
    \E modelId \in ModelIds \cup {NoModelId}, withPipelines \in BOOLEAN,
       models \in Outcomes(TrainedModelConfigs, <<>>),
       stats \in Outcomes(TrainedModelStats, <<>>),
       pipelines \in Outcomes(PipelinesResponses, NoPipelines) :
       LET h == getTrainedModelsHandler(modelId, withPipelines, models, stats, pipelines)
       IN  /\ request' = Request("GET /api/ml/trained_models/{modelId?}", modelId,
                                 withPipelines)
           /\ responses' = h.responses
           /\ escaped' = h.escaped
           /\ debugLog' = h.debug
           /\ clientLog' = h.calls
           /\ UNCHANGED notRoutes

GetTrainedModelPipelines ==
    \E modelId \in ModelIds, outcome \in Outcomes(PipelinesResponses, NoPipelines) :
       LET h == routeTryCatch(outcome, getPipelinesBody(outcome.body))
       IN  /\ request' = Request("GET /api/ml/trained_models/{modelId}/pipelines", modelId,
                                 FALSE)
           /\ responses' = h.responses
           /\ escaped' = h.escaped
           /\ debugLog' = <<>>
           /\ clientLog' = <<ClientCall("getModelsPipelines", modelId, outcome)>>
           /\ UNCHANGED notRoutes

GetTrainedModelsStats ==
    \E modelId \in {NoModelId}, outcome \in Outcomes(ClientBodies, "") :
       LET h == proxyHandler("getTrainedModelsStats", modelId, outcome)
       IN  /\ request' = Request("GET /api/ml/trained_models/_stats",
                                 modelId, FALSE)
           /\ responses' = h.responses
           /\ escaped' = h.escaped
           /\ debugLog' = h.debug
           /\ clientLog' = h.calls
           /\ UNCHANGED notRoutes

GetTrainedModelStatsById ==
    \E modelId \in ModelIds, outcome \in Outcomes(ClientBodies, "") :
       LET h == proxyHandler("getTrainedModelsStats", modelId, outcome)
       IN  /\ request' = Request("GET /api/ml/trained_models/{modelId}/_stats",
                                 modelId, FALSE)
           /\ responses' = h.responses
           /\ escaped' = h.escaped
           /\ debugLog' = h.debug
           /\ clientLog' = h.calls
           /\ UNCHANGED notRoutes

PutTrainedModel ==
    \E modelId \in ModelIds, outcome \in Outcomes(ClientBodies, "") :
       LET h == proxyHandler("putTrainedModel", modelId, outcome)
       IN  /\ request' = Request("PUT /api/ml/trained_models/{modelId}",
                                 modelId, FALSE)
           /\ responses' = h.responses
           /\ escaped' = h.escaped
           /\ debugLog' = h.debug
           /\ clientLog' = h.calls
           /\ UNCHANGED notRoutes

DeleteTrainedModel ==
    \E modelId \in ModelIds, outcome \in Outcomes(ClientBodies, "") :
       LET h == proxyHandler("deleteTrainedModel", modelId, outcome)
       IN  /\ request' = Request("DELETE /api/ml/trained_models/{modelId}",
                                 modelId, FALSE)
           /\ responses' = h.responses
           /\ escaped' = h.escaped
           /\ debugLog' = h.debug
           /\ clientLog' = h.calls
           /\ UNCHANGED notRoutes

StartTrainedModelDeployment ==
    \E modelId \in ModelIds, outcome \in Outcomes(ClientBodies, "") :
       LET h == proxyHandler("startTrainedModelDeployment", modelId, outcome)
       IN  /\ request' = Request("POST /api/ml/trained_models/{modelId}/deployment/_start",
                                 modelId, FALSE)
           /\ responses' = h.responses
           /\ escaped' = h.escaped
           /\ debugLog' = h.debug
           /\ clientLog' = h.calls
           /\ UNCHANGED notRoutes

UpdateTrainedModelDeployment ==
    \E modelId \in ModelIds, outcome \in Outcomes(ClientBodies, "") :
       LET h == proxyHandler("updateTrainedModelDeployment", modelId, outcome)
       IN  /\ request' = Request("POST /api/ml/trained_models/{modelId}/deployment/_update",
                                 modelId, FALSE)
           /\ responses' = h.responses
           /\ escaped' = h.escaped
           /\ debugLog' = h.debug
           /\ clientLog' = h.calls
           /\ UNCHANGED notRoutes

StopTrainedModelDeployment ==
    \E modelId \in ModelIds, outcome \in Outcomes(ClientBodies, "") :
       LET h == proxyHandler("stopTrainedModelDeployment", modelId, outcome)
       IN  /\ request' = Request("POST /api/ml/trained_models/{modelId}/deployment/_stop",
                                 modelId, FALSE)
           /\ responses' = h.responses
           /\ escaped' = h.escaped
           /\ debugLog' = h.debug
           /\ clientLog' = h.calls
           /\ UNCHANGED notRoutes

SimulateIngestPipeline ==
    \E modelId \in {NoModelId}, outcome \in Outcomes(ClientBodies, "") :
       LET h == proxyHandler("ingest.simulate", modelId, outcome)
       IN  /\ request' = Request("POST /api/ml/trained_models/pipeline_simulate",
                                 modelId, FALSE)
           /\ responses' = h.responses
           /\ escaped' = h.escaped
           /\ debugLog' = h.debug
           /\ clientLog' = h.calls
           /\ UNCHANGED notRoutes

InferTrainedModel ==
    \E modelId \in ModelIds, outcome \in Outcomes(ClientBodies, "") :
       LET h == proxyHandler("inferTrainedModel", modelId, outcome)
       IN  /\ request' = Request("POST /api/ml/trained_models/infer/{modelId}",
                                 modelId, FALSE)
           /\ responses' = h.responses
           /\ escaped' = h.escaped
           /\ debugLog' = h.debug
           /\ clientLog' = h.calls
           /\ UNCHANGED notRoutes

RoutesInit ==
    /\ request = Request("", NoModelId, FALSE)
    /\ responses = <<>>
    /\ escaped = FALSE
    /\ debugLog = <<>>
    /\ clientLog = <<>>

RoutesNext ==
    \/ GetTrainedModels
    \/ GetTrainedModelsStats
    \/ GetTrainedModelStatsById
    \/ GetTrainedModelPipelines
    \/ PutTrainedModel
    \/ DeleteTrainedModel
    \/ StartTrainedModelDeployment
    \/ UpdateTrainedModelDeployment
    \/ StopTrainedModelDeployment
    \/ SimulateIngestPipeline
    \/ InferTrainedModel

(***************************************************************************)
(* Set*Chrome: arrays, reverseArray and the title / breadcrumb helpers     *)
(***************************************************************************)
\* longest trail a view passes
MaxTrail == 3

TrailTexts == {"Engines", "Example Engine Name", "Curations"}

RECURSIVE SeqsUpTo(_, _)
SeqsUpTo(S, n) ==
    IF n = 0 THEN {<<>>}
    ELSE LET shorter == SeqsUpTo(S, n - 1)
         IN  shorter \cup {Append(t, x) : t \in {u \in shorter : Len(u) = n - 1}, x \in S}

\* the trail prop: omitted, or an array of page titles
TrailProps ==
    {[given |-> FALSE, array |-> <<>>]}
       \cup {[given |-> TRUE, array |-> t] : t \in SeqsUpTo(TrailTexts, MaxTrail)}

\* ({ trail = [] }) => ...
trailOrDefault(prop) == IF prop.given THEN prop.array ELSE <<>>

\* Arrays are objects: `arrays` holds the contents of each array, an array is
\* named by its index there.  A call yields [arrays, ret]: the arrays after
\* it and the array it returns.

\* Array.prototype.slice(): a new array with the same elements
slice(as, array) == [arrays |-> Append(as, as[array]), ret |-> Len(as) + 1]

RECURSIVE Reversed(_)
Reversed(s) == IF s = <<>> THEN <<>> ELSE Append(Reversed(Tail(s)), Head(s))

\* Array.prototype.reverse(): reverses the array in place and returns it
reverse(as, array) == [arrays |-> [as EXCEPT ![array] = Reversed(as[array])], ret |-> array]

\* as reverseArray, without the copy
reverseArray_InPlace(as, array) == reverse(as, array)

\* const reverseArray = (array: string[]) => array.slice().reverse();
reverseArray(as, array) ==
    LET copy == slice(as, array)
    IN  reverse(copy.arrays, copy.ret)

\* ./generate_title: the parts of the title, the pages first and the product
\* last ("Curations - Example Engine Name - Engines - App Search")
enterpriseSearchTitle(page) == Append(page, "Enterprise Search")
analyticsTitle(page) == Append(page, "Behavioral Analytics")
elasticsearchTitle(page) == Append(page, "Elasticsearch")
appSearchTitle(page) == Append(page, "App Search")
workplaceSearchTitle(page) == Append(page, "Workplace Search")
searchExperiencesTitle(page) == Append(page, "Search Experiences")

\* ./generate_breadcrumbs: one crumb per text of the trail, in its order
Crumb(text) == [text |-> text]
useGenerateBreadcrumbs(trail) == [i \in DOMAIN trail |-> Crumb(trail[i])]

\* ./generate_breadcrumbs: the product's own crumbs, then the crumbs given
\* ("Enterprise Search > App Search > Engines > Example Engine Name > Curations")
useEnterpriseSearchBreadcrumbs(crumbs) == <<Crumb("Enterprise Search")>> \o crumbs
useAnalyticsBreadcrumbs(crumbs) ==
    useEnterpriseSearchBreadcrumbs(<<Crumb("Behavioral Analytics")>> \o crumbs)
useElasticsearchBreadcrumbs(crumbs) ==
    useEnterpriseSearchBreadcrumbs(<<Crumb("Elasticsearch")>> \o crumbs)
useAppSearchBreadcrumbs(crumbs) ==
    useEnterpriseSearchBreadcrumbs(<<Crumb("App Search")>> \o crumbs)
useWorkplaceSearchBreadcrumbs(crumbs) ==
    useEnterpriseSearchBreadcrumbs(<<Crumb("Workplace Search")>> \o crumbs)
useEnterpriseSearchContentBreadcrumbs(crumbs) ==
    useEnterpriseSearchBreadcrumbs(<<Crumb("Content")>> \o crumbs)
useSearchExperiencesBreadcrumbs(crumbs) ==
    useEnterpriseSearchBreadcrumbs(<<Crumb("Search Experiences")>> \o crumbs)
useEnterpriseSearchEnginesBreadcrumbs(crumbs) == useEnterpriseSearchBreadcrumbs(crumbs)

\* the body every Set*Chrome component shares up to its helpers: the arrays
\* after reverseArray(trail), with the trail at index 1 and the title after it
titleOf(prop) == reverseArray(<<trailOrDefault(prop)>>, 1)

(***************************************************************************)
(* Set*Chrome: the components.  Each action is a render of the component   *)
(* with a trail array it has not seen, and the effect that follows it.     *)
(***************************************************************************)
SetEnterpriseSearchChrome ==
    \E prop \in TrailProps :
       LET title == titleOf(prop)
           trail == title.arrays[1]
           crumbs == useGenerateBreadcrumbs(trail)
       IN  /\ chrome' = "SetEnterpriseSearchChrome"
           /\ trailProp' = prop
           /\ arrays' = title.arrays
           /\ docTitle' = enterpriseSearchTitle(title.arrays[title.ret])
           /\ breadcrumbs' = useEnterpriseSearchBreadcrumbs(crumbs)
           /\ UNCHANGED notChrome

SetAnalyticsChrome ==
    \E prop \in TrailProps :
       LET title == titleOf(prop)
           trail == title.arrays[1]
           crumbs == useGenerateBreadcrumbs(trail)
       IN  /\ chrome' = "SetAnalyticsChrome"
           /\ trailProp' = prop
           /\ arrays' = title.arrays
           /\ docTitle' = analyticsTitle(title.arrays[title.ret])
           /\ breadcrumbs' = useAnalyticsBreadcrumbs(crumbs)
           /\ UNCHANGED notChrome

SetElasticsearchChrome ==
    \E prop \in TrailProps :
       LET title == titleOf(prop)
           trail == title.arrays[1]
           crumbs == useGenerateBreadcrumbs(trail)
       IN  /\ chrome' = "SetElasticsearchChrome"
           /\ trailProp' = prop
           /\ arrays' = title.arrays
           /\ docTitle' = elasticsearchTitle(title.arrays[title.ret])
           /\ breadcrumbs' = useElasticsearchBreadcrumbs(crumbs)
           /\ UNCHANGED notChrome

SetAppSearchChrome ==
    \E prop \in TrailProps :
       LET title == titleOf(prop)
           trail == title.arrays[1]
           crumbs == useGenerateBreadcrumbs(trail)
       IN  /\ chrome' = "SetAppSearchChrome"
           /\ trailProp' = prop
           /\ arrays' = title.arrays
           /\ docTitle' = appSearchTitle(title.arrays[title.ret])
           /\ breadcrumbs' = useAppSearchBreadcrumbs(crumbs)
           /\ UNCHANGED notChrome

SetWorkplaceSearchChrome ==
    \E prop \in TrailProps :
       LET title == titleOf(prop)
           trail == title.arrays[1]
           crumbs == useGenerateBreadcrumbs(trail)
       IN  /\ chrome' = "SetWorkplaceSearchChrome"
           /\ trailProp' = prop
           /\ arrays' = title.arrays
           /\ docTitle' = workplaceSearchTitle(title.arrays[title.ret])
           /\ breadcrumbs' = useWorkplaceSearchBreadcrumbs(crumbs)
           /\ UNCHANGED notChrome

SetEnterpriseSearchContentChrome ==
    \E prop \in TrailProps :
       LET title == titleOf(prop)
           trail == title.arrays[1]
           crumbs == useGenerateBreadcrumbs(trail)
       IN  /\ chrome' = "SetEnterpriseSearchContentChrome"
           /\ trailProp' = prop
           /\ arrays' = title.arrays
           /\ docTitle' = appSearchTitle(title.arrays[title.ret])
           /\ breadcrumbs' = useEnterpriseSearchContentBreadcrumbs(crumbs)
           /\ UNCHANGED notChrome

SetSearchExperiencesChrome ==
    \E prop \in TrailProps :
       LET title == titleOf(prop)
           trail == title.arrays[1]
           crumbs == useGenerateBreadcrumbs(trail)
       IN  /\ chrome' = "SetSearchExperiencesChrome"
           /\ trailProp' = prop
           /\ arrays' = title.arrays
           /\ docTitle' = searchExperiencesTitle(title.arrays[title.ret])
           /\ breadcrumbs' = useSearchExperiencesBreadcrumbs(crumbs)
           /\ UNCHANGED notChrome

SetEnterpriseSearchEnginesChrome ==
    \E prop \in TrailProps :
       LET title == titleOf(prop)
           trail == title.arrays[1]
           crumbs == useGenerateBreadcrumbs(<<"ENGINES_PLUGIN.NAV_TITLE">> \o trail)
       IN  /\ chrome' = "SetEnterpriseSearchEnginesChrome"
           /\ trailProp' = prop
           /\ arrays' = title.arrays
           /\ docTitle' = appSearchTitle(title.arrays[title.ret])
           /\ breadcrumbs' = useEnterpriseSearchEnginesBreadcrumbs(crumbs)
           /\ UNCHANGED notChrome

ChromeInit ==
    /\ chrome = ""
    /\ trailProp = [given |-> FALSE, array |-> <<>>]
    /\ arrays = <<>>
    /\ docTitle = <<>>
    /\ breadcrumbs = <<>>

ChromeNext ==
    \/ SetEnterpriseSearchChrome
    \/ SetAnalyticsChrome
    \/ SetElasticsearchChrome
    \/ SetAppSearchChrome
    \/ SetWorkplaceSearchChrome
    \/ SetEnterpriseSearchContentChrome
    \/ SetSearchExperiencesChrome
    \/ SetEnterpriseSearchEnginesChrome

(***************************************************************************)
(* CasesProvider: props, the context value and its effects                 *)
(***************************************************************************)
\* undefined: a prop that is not passed, an application not yet known
Undefined == "undefined"

\* a permissions object: which object it is, and the fields it holds
Permissions(object, fields) == [object |-> object, fields |-> fields]

\* the value prop.  features: the paths it sets, each with its value ({} is
\* both an omitted prop and an empty object)
CasesContextProps ==
    [externalReferenceAttachmentTypeRegistry : {"registry1", "registry2"},
     persistableStateAttachmentTypeRegistry : {"registry1", "registry2"},
     owner : {<<>>, <<"securitySolution">>, <<"observability">>, <<"unregistered">>},
     permissions : {Permissions("o1", "all"), Permissions("o2", "all"),
                    Permissions("o2", "read")},
     basePath : {Undefined, "/app/security/cases"},
     features : {{}, {<<"alerts.sync", FALSE>>}},
     releasePhase : {Undefined, "experimental"}]

\* the props of the first render
FirstRenderProps ==
    {p \in CasesContextProps :
        /\ p.permissions = Permissions("o1", "all")
        /\ p.externalReferenceAttachmentTypeRegistry = "registry1"
        /\ p.persistableStateAttachmentTypeRegistry = "registry1"
        /\ p.owner = <<"securitySolution">>
        /\ (p.basePath = Undefined) = (p.features = {})
        /\ (p.basePath = Undefined) = (p.releasePhase = Undefined)}

\* what useApplication() returns
Applications ==
    [appId : {Undefined, "securitySolutionUI", "observability-overview"},
     appTitle : {Undefined, "", "Security"}]

\* ../../common/navigation and ../../../common/constants
DEFAULT_BASE_PATH == "DEFAULT_BASE_PATH"
DEFAULT_FEATURES == [p \in {"alerts.sync", "alerts.enabled"} |-> TRUE]

\* basePath = DEFAULT_BASE_PATH, releasePhase = 'ga' of the parameter list
orDefault(prop, default) == IF prop = Undefined THEN default ELSE prop

\* merge({}, DEFAULT_FEATURES, features)
merge(defaults, features) ==
    [p \in DOMAIN defaults |->
        IF \E f \in features : f[1] = p
        THEN (CHOOSE f \in features : f[1] = p)[2]
        ELSE defaults[p]]

\* the dispatch of useReducer: the same function on every render
Dispatch == "dispatch"

\* the useState initializer: the context value of the first render
initialValue(p) ==
    [externalReferenceAttachmentTypeRegistry |-> p.externalReferenceAttachmentTypeRegistry,
     persistableStateAttachmentTypeRegistry |-> p.persistableStateAttachmentTypeRegistry,
     owner |-> p.owner,
     permissions |-> p.permissions,
     basePath |-> orDefault(p.basePath, DEFAULT_BASE_PATH),
     features |-> merge(DEFAULT_FEATURES, p.features),
     releasePhase |-> orDefault(p.releasePhase, "ga"),
     dispatch |-> Dispatch,
     appId |-> Undefined,
     appTitle |-> Undefined]

\* as permissionsEffect, spreading the props of the render into the value
permissionsEffect_SpreadProps(prev, p) ==
    [prev EXCEPT !.permissions = p.permissions,
                 !.owner = p.owner,
                 !.externalReferenceAttachmentTypeRegistry =
                     p.externalReferenceAttachmentTypeRegistry,
                 !.persistableStateAttachmentTypeRegistry =
                     p.persistableStateAttachmentTypeRegistry]

\* setValue((prev) => ({ ...prev, permissions })), with the props of the render
permissionsEffect(prev, p) == [prev EXCEPT !.permissions = p.permissions]

\* as applicationEffect, without the test of appId and appTitle
applicationEffect_Always(prev, app) ==
    [prev EXCEPT !.appId = app.appId, !.appTitle = app.appTitle]

\* if (appId && appTitle) setValue((prev) => ({ ...prev, appId, appTitle }))
applicationEffect(prev, app) ==
    IF app.appId \notin {Undefined, ""} /\ app.appTitle \notin {Undefined, ""}
    THEN [prev EXCEPT !.appId = app.appId, !.appTitle = app.appTitle]
    ELSE prev

\* the effects that run after a render, in their order: useDeepCompareEffect
\* when the fields of permissions differ from the previous render's, useEffect
\* when appTitle or appId does
afterRender(prev, before, p, appBefore, app) ==
    LET v1 == IF before.permissions.fields # p.permissions.fields
              THEN permissionsEffect(prev, p) ELSE prev
    IN  IF appBefore.appTitle # app.appTitle \/ appBefore.appId # app.appId
        THEN applicationEffect(v1, app) ELSE v1

\* both effects run after the first render
afterMount(p, app) ==
    applicationEffect(permissionsEffect(initialValue(p), p), app)

\* value.appId != null && value.appTitle != null && value.permissions != null
\* (permissions is a required prop: it is an object in every value)
isCasesContextValue(v) ==
    v.appId # Undefined /\ v.appTitle # Undefined

\* ../../files and ../../../common/files; getFilesClient is a prop
isRegisteredOwner(o) == o \in {"securitySolution", "observability"}
constructFileKindIdByOwner(o) == <<"fileKind", o>>
getFilesClient(scope) == <<"filesClient", scope>>

\* what a render gives: nothing, the provider around the children (inside a
\* FilesContext with a client, or bare), or the error it throws
Rendering(kind, client, error) == [kind |-> kind, client |-> client, error |-> error]
RendersNull == Rendering("null", <<>>, "")
InvalidOwnerError == "Invalid owner provided to cases context."

\* as applyFilesContext, without the check of the owner
applyFilesContext_NoCheck(owner) ==
    IF Len(owner) = 0 THEN Rendering("children", <<>>, "")
    ELSE Rendering("FilesContext", getFilesClient(constructFileKindIdByOwner(owner[1])), "")

\* applyFilesContext(contextChildren), with the owner of the render
applyFilesContext(owner) ==
    IF Len(owner) = 0 THEN Rendering("children", <<>>, "")
    ELSE IF isRegisteredOwner(owner[1])
    THEN Rendering("FilesContext", getFilesClient(constructFileKindIdByOwner(owner[1])), "")
    ELSE Rendering("error", <<>>, InvalidOwnerError)

\* return isCasesContextValue(value) ? <CasesContext.Provider ...> : null
render(v, p) == IF isCasesContextValue(v) THEN applyFilesContext(p.owner) ELSE RendersNull

\* a render with props p and application app, then the effects and the
\* render their setValue brings; a render that throws commits nothing
rerender(v, before, p, appBefore, app) ==
    IF render(v, p).kind = "error"
    THEN [value |-> v, output |-> render(v, p)]
    ELSE LET after == afterRender(v, before, p, appBefore, app)
         IN  [value |-> after, output |-> render(after, p)]

\* the last application with both appId and appTitle set
readyOr(app, before) ==
    IF app.appId \notin {Undefined, ""} /\ app.appTitle \notin {Undefined, ""}
    THEN app ELSE before

\* the parent renders the provider with another value for one of the props
ChangeProps ==
    \E p \in CasesContextProps :
       /\ output.kind # "error"
       /\ Cardinality({f \in DOMAIN p : p[f] # props[f]}) = 1
       /\ props' = p
       /\ value' = rerender(value, props, p, application, application).value
       /\ output' = rerender(value, props, p, application, application).output
       /\ UNCHANGED <<application, captured, lastReady>>
       /\ UNCHANGED notCases

\* useApplication returns another application
ChangeApplication ==
    \E a \in Applications :
       /\ output.kind # "error"
       /\ a # application
       /\ application' = a
       /\ value' = rerender(value, props, props, application, a).value
       /\ output' = rerender(value, props, props, application, a).output
       /\ lastReady' = readyOr(a, lastReady)
       /\ UNCHANGED <<props, captured>>
       /\ UNCHANGED notCases

\* the provider is mounted: the first render and its effects
CasesInit ==
    /\ props \in FirstRenderProps
    /\ application \in Applications
    /\ captured = initialValue(props)
    /\ value = afterMount(props, application)
    /\ output = render(value, props)
    /\ lastReady = readyOr(application, [appId |-> Undefined, appTitle |-> Undefined])

CasesNext == ChangeProps \/ ChangeApplication

(***************************************************************************)
(* SloEditForm: the checkbox, the rules effect and handleSubmit            *)
(***************************************************************************)
\* handleSubmit calls begun in one behaviour
MaxSubmits == 2

\* the slo prop: undefined in create mode, the SLO edited otherwise
SloProps == {Undefined, "slo1"}

\* ids createSlo may answer with
CreatedIds == {"slo2", "slo3"}

\* `${paths.observability.sloEdit(id)}?${CREATE_RULE_SEARCH_PARAM}=true`
createRuleUrl(id) == <<"sloEdit", id, "create-rule=true">>
\* paths.observability.slos
slosUrl == <<"slos">>

\* the useEffect on [isCreateRuleCheckboxChecked, isEditMode, rules, slo]:
\* the checkbox after it, given the rules fetched ("loading": rules undefined,
\* "none" / "some": rules[slo.id].length is 0 / not)
rulesEffect(sloProp, rulesData, checked) ==
    IF sloProp # Undefined /\ rulesData = "some" /\ checked THEN FALSE ELSE checked

\* no handleSubmit in flight
NoSubmit == [pc |-> "idle", isCreateRuleCheckboxChecked |-> FALSE, request |-> "",
             toasts |-> 0, navigations |-> 0]

\* where handleSubmit navigates after a success: isCreateRuleCheckboxChecked
\* is the constant of the render whose handleSubmit was called
submitTarget(closure, current, id) ==
    IF closure THEN createRuleUrl(id) ELSE slosUrl

\* history: how a handleSubmit call ended
sloFinished(outcome, sub, id, checked, target) ==
    [outcome |-> outcome, request |-> sub.request, id |-> id,
     toasts |-> sub.toasts, navigations |-> sub.navigations,
     checkedAtClick |-> sub.isCreateRuleCheckboxChecked, checkedAtEnd |-> checked,
     target |-> target, rulesAtEnd |-> rules]

\* onClick={handleSubmit}: the call begins, awaiting trigger()
ClickSubmit ==
    /\ ~unmounted
    /\ submit.pc = "idle"
    /\ submits < MaxSubmits
    /\ submits' = submits + 1
    /\ submit' = [NoSubmit EXCEPT !.pc = "trigger",
                                  !.isCreateRuleCheckboxChecked = isChecked]
    /\ UNCHANGED <<slo, rules, isChecked, isAddRuleFlyoutOpen, unmounted, toasts,
                   navigations, requests, lastSubmit>>
    /\ UNCHANGED notSlo

\* await trigger() resolves; a valid form sends updateSlo or createSlo
TriggerResolves ==
    \E isValid \in BOOLEAN :
       /\ submit.pc = "trigger"
       /\ IF isValid
          THEN /\ submit' = [submit EXCEPT !.pc = "request",
                                !.request = IF slo # Undefined THEN "updateSlo"
                                            ELSE "createSlo"]
               /\ requests' = Append(requests, submit'.request)
               /\ UNCHANGED lastSubmit
          ELSE /\ submit' = NoSubmit
               /\ lastSubmit' = sloFinished("invalid", submit, Undefined, isChecked, <<>>)
               /\ UNCHANGED requests
       /\ UNCHANGED <<slo, rules, isChecked, isAddRuleFlyoutOpen, unmounted, toasts,
                      navigations, submits>>
       /\ UNCHANGED notSlo

\* the request resolves: toasts.addSuccess and navigateToUrl
RequestSucceeds ==
    \E id \in (IF slo # Undefined THEN {slo} ELSE CreatedIds) :
       LET target == submitTarget(submit.isCreateRuleCheckboxChecked, isChecked, id)
           sub == [submit EXCEPT !.toasts = @ + 1, !.navigations = @ + 1]
           stays == ~unmounted /\ slo # Undefined /\ target = createRuleUrl(slo)
       IN  /\ submit.pc = "request"
           /\ toasts' = Append(toasts, "success")
           /\ navigations' = Append(navigations, target)
           /\ submit' = NoSubmit
           /\ lastSubmit' = sloFinished("saved", sub, id, isChecked, target)
           \* the edit page of the same SLO keeps the form mounted; the search
           \* then has create-rule and the render opens the flyout
           /\ isAddRuleFlyoutOpen' = (isAddRuleFlyoutOpen \/ stays)
           /\ unmounted' = ~stays
           /\ UNCHANGED <<slo, rules, isChecked, requests, submits>>
           /\ UNCHANGED notSlo

\* as requestCatch, with a catch that also leaves the form for the SLO list
requestCatch_Leaves(shown, visited) ==
    [toasts |-> Append(shown, "error"), navigations |-> Append(visited, slosUrl)]

\* catch (error) { toasts.addError(...) } around the request: the toasts and
\* the navigations after it
requestCatch(shown, visited) ==
    [toasts |-> Append(shown, "error"), navigations |-> visited]

\* the request rejects: toasts.addError
RequestFails ==
    /\ submit.pc = "request"
    /\ toasts' = requestCatch(toasts, navigations).toasts
    /\ submit' = NoSubmit
    /\ navigations' = requestCatch(toasts, navigations).navigations
    /\ lastSubmit' = sloFinished("failed",
                          [submit EXCEPT !.toasts = Len(toasts') - Len(toasts),
                                         !.navigations = Len(navigations') - Len(navigations)],
                          Undefined, isChecked, <<>>)
    /\ UNCHANGED <<slo, rules, isChecked, isAddRuleFlyoutOpen, unmounted, requests,
                   submits>>
    /\ UNCHANGED notSlo

\* handleChangeCheckbox, and the effect of the render that follows; the
\* checkbox is disabled while the rules are loading
handleChangeCheckbox ==
    /\ ~unmounted
    /\ rules # "loading"
    /\ isChecked' = rulesEffect(slo, rules, ~isChecked)
    /\ UNCHANGED <<slo, rules, isAddRuleFlyoutOpen, unmounted, submit, toasts,
                   navigations, requests, submits, lastSubmit>>
    /\ UNCHANGED notSlo

\* useFetchRulesForSlo returns the rules, and the effect of that render
RulesLoaded ==
    \E data \in {"none", "some"} :
       /\ ~unmounted
       /\ rules = "loading"
       /\ rules' = data
       /\ isChecked' = rulesEffect(slo, data, isChecked)
       /\ UNCHANGED <<slo, isAddRuleFlyoutOpen, unmounted, submit, toasts,
                      navigations, requests, submits, lastSubmit>>
       /\ UNCHANGED notSlo

\* the cancel button (disabled while a request is loading) and
\* handleCloseRuleFlyout: navigateToUrl(basePath.prepend(paths.observability.slos))
LeaveForSlos ==
    /\ ~unmounted
    /\ submit.pc # "request" \/ isAddRuleFlyoutOpen
    /\ navigations' = Append(navigations, slosUrl)
    /\ unmounted' = TRUE
    /\ UNCHANGED <<slo, rules, isChecked, isAddRuleFlyoutOpen, submit, toasts,
                   requests, submits, lastSubmit>>
    /\ UNCHANGED notSlo

\* the form is mounted: useState(false), useState(true); in create mode no
\* rules are fetched
SloInit ==
    /\ slo \in SloProps
    /\ rules = IF slo = Undefined THEN "none" ELSE "loading"
    /\ isChecked = TRUE
    /\ isAddRuleFlyoutOpen = FALSE
    /\ unmounted = FALSE
    /\ submit = NoSubmit
    /\ toasts = <<>>
    /\ navigations = <<>>
    /\ requests = <<>>
    /\ submits = 0
    /\ lastSubmit = sloFinished("none", NoSubmit, Undefined, TRUE, <<>>)

SloNext ==
    \/ ClickSubmit
    \/ TriggerResolves
    \/ RequestSucceeds
    \/ RequestFails
    \/ handleChangeCheckbox
    \/ RulesLoaded
    \/ LeaveForSlos

(***************************************************************************)
(* content-management Table: selection and the delete button               *)
(***************************************************************************)
\* the items listed, by id
Items == {"a", "b"}

\* tableItemsRowActions[id]: no entry, an entry without delete, or a delete
\* action with or without enabled and reason
RowActions ==
    {[delete |-> d] : d \in {<<>>, [enabled |-> TRUE], [enabled |-> FALSE],
                             [reason |-> "in use"],
                             [enabled |-> TRUE, reason |-> "in use"],
                             [enabled |-> FALSE, reason |-> "in use"]}}
       \cup {<<>>}

TableItemsRowActions ==
    UNION {[ids -> RowActions] : ids \in SUBSET Items}

\* the props the selection and the delete button are computed from
TableProps ==
    [deleteItems : BOOLEAN,
     tableItemsRowActions : TableItemsRowActions,
     selectedIds : {<<>>, <<"a">>, <<"b">>, <<"a", "b">>},
     entityName : {"dashboard"}, entityNamePlural : {"dashboards"}]

\* tableItemsRowActions[id]?.delete
deleteOf(rowActions, id) ==
    IF id \in DOMAIN rowActions /\ "delete" \in DOMAIN rowActions[id]
    THEN rowActions[id].delete ELSE <<>>

\* as selectable, for a delete action that must be enabled explicitly
selectable_EnabledOnly(rowActions, id) ==
    "enabled" \in DOMAIN deleteOf(rowActions, id) /\ deleteOf(rowActions, id).enabled

\* selection.selectable: actions?.delete?.enabled !== false
selectable(rowActions, id) ==
    ~ ("enabled" \in DOMAIN deleteOf(rowActions, id)
          /\ deleteOf(rowActions, id).enabled = FALSE)

\* selection.selectableMessage
selectableMessage(isSelectable, rowActions, id) ==
    IF ~isSelectable
    THEN IF "reason" \in DOMAIN deleteOf(rowActions, id)
         THEN deleteOf(rowActions, id).reason
         ELSE "Actions disabled for this item"
    ELSE ""

\* the selection memo: undefined (the empty tuple) without deleteItems, else
\* what the table gets from selectable and selectableMessage for each item
selection(p) ==
    IF p.deleteItems
    THEN <<[selectable |->
               [id \in Items |-> selectable(p.tableItemsRowActions, id)],
            selectableMessage |->
               [id \in Items |->
                   selectableMessage(selectable(p.tableItemsRowActions, id),
                                     p.tableItemsRowActions, id)],
            initialSelected |-> <<>>]>>
    ELSE <<>>

\* renderToolsLeft: undefined (the empty tuple) or the button's message values
renderToolsLeft(p) ==
    IF ~p.deleteItems \/ Len(p.selectedIds) = 0
    THEN <<>>
    ELSE <<"Delete", Len(p.selectedIds),
           IF Len(p.selectedIds) = 1 THEN p.entityName ELSE p.entityNamePlural>>

\* a render of Table with the props p
Table(p) ==
    /\ tableProps' = p
    /\ tableOut' = [selection |-> selection(p), toolsLeft |-> renderToolsLeft(p)]
    /\ UNCHANGED notTable

TableInit ==
    /\ tableProps \in TableProps
    /\ tableOut = [selection |-> selection(tableProps),
                   toolsLeft |-> renderToolsLeft(tableProps)]

TableNext == \E p \in TableProps : Table(p)

(***************************************************************************)
(* AlertsByStatus: the total above the donuts                              *)
(***************************************************************************)
\* the largest total one status, or the visualization, reports
MaxStatusTotal == 1

\* donutData == null, and a status that donutData does not carry
NoData == <<>>

\* donutData?.open, ?.acknowledged, ?.closed: absent, or <<total>>
StatusData == {NoData} \cup {<<t>> : t \in 0..MaxStatusTotal}

DonutData == {NoData} \cup [open : StatusData, acknowledged : StatusData, closed : StatusData]

\* what the hooks hand to one render: useQueryToggle, the experimental
\* feature, useAlertsByStatus and useAlertsByStatusVisualizationData
AlertsProps ==
    [toggleStatus : BOOLEAN,
     isDonutChartEmbeddablesEnabled : BOOLEAN,
     loading : BOOLEAN,
     donutData : DonutData,
     visualizationTotalAlerts : 0..MaxStatusTotal]

\* donutData?.<status>?.total ?? 0
statusCount(data, status) ==
    IF data = NoData THEN 0
    ELSE IF data[status] = NoData THEN 0
    ELSE data[status][1]

openCount(p) == statusCount(p.donutData, "open")

acknowledgedCount(p) == statusCount(p.donutData, "acknowledged")

closedCount(p) == statusCount(p.donutData, "closed")

totalAlerts(p) ==
    IF p.loading \/ p.donutData = NoData THEN 0
    ELSE openCount(p) + acknowledgedCount(p) + closedCount(p)

totalAlertsCount(p) ==
    IF p.isDonutChartEmbeddablesEnabled THEN p.visualizationTotalAlerts ELSE totalAlerts(p)

\* a value of a JSX expression: a boolean, or the fragment with
\* FormattedCount and the ALERTS label of one count
JsBoolean(b) == [type |-> "boolean", truthy |-> b, count |-> 0]

CountFragment(count) == [type |-> "element", truthy |-> TRUE, count |-> count]

\* a || b and a && b of JavaScript: the operand that decides is the value
jsOr(a, b) == IF a.truthy THEN a ELSE b

jsAnd(a, b) == IF a.truthy THEN b ELSE a

\* the child of the EuiText:
\* totalAlerts !== 0 || (visualizationTotalAlerts !== 0 && <>...</>)
totalExpression(p) ==
    jsOr(JsBoolean(totalAlerts(p) # 0),
         jsAnd(JsBoolean(p.visualizationTotalAlerts # 0),
               CountFragment(totalAlertsCount(p))))

\* what React puts on the page for a child: nothing for a boolean, and for
\* the fragment the count that FormattedCount and ALERTS were given
reactChild(child) == IF child.type = "boolean" THEN <<>> ELSE <<child.count>>

\* the block under the header: absent while the panel is collapsed
alertsRender(p) ==
    [expanded |-> p.toggleStatus,
     text |-> IF p.toggleStatus THEN reactChild(totalExpression(p)) ELSE <<>>]

\* one render of the component
AlertsByStatus(p) ==
    /\ alertsProps' = p
    /\ alertsTotal' = alertsRender(p)
    /\ UNCHANGED notAlerts

\* the panel collapsed, nothing queried
AlertsInit ==
    /\ alertsProps = [toggleStatus |-> FALSE, isDonutChartEmbeddablesEnabled |-> FALSE,
                      loading |-> FALSE, donutData |-> NoData,
                      visualizationTotalAlerts |-> 0]
    /\ alertsTotal = alertsRender(alertsProps)

AlertsNext == \E p \in AlertsProps : AlertsByStatus(p)

(***************************************************************************)
(* MissingEncryptionKeyCallout: visible until dismissed                    *)
(***************************************************************************)
\* useGetActionState().data before the action state has loaded
NotLoaded == <<>>

\* data.canEncrypt: undefined, or <<the boolean>>
CanEncryptValues == {<<>>, <<TRUE>>, <<FALSE>>}

EncryptionKeyStates == {NotLoaded} \cup [data : [canEncrypt : CanEncryptValues]]

\* as MissingEncryptionKeyCallout, without the test of calloutDismiss
MissingEncryptionKeyCallout_Undismissable(state, dismissed) ==
    IF state = NotLoaded THEN FALSE
    ELSE state.data.canEncrypt # <<TRUE>>

\* the render: TRUE for the EuiCallOut, FALSE for null
MissingEncryptionKeyCallout(state, dismissed) ==
    IF state = NotLoaded THEN FALSE
    ELSE IF dismissed \/ state.data.canEncrypt = <<TRUE>> THEN FALSE
    ELSE TRUE

\* renders of the callout in one behaviour, after the first
MaxRenders == 5

\* useGetActionState hands the component another value, and it renders
ActionStateChanges(state) ==
    /\ Len(calloutLog) < MaxRenders
    /\ state # encryptionKeyState
    /\ encryptionKeyState' = state
    /\ calloutVisible' = MissingEncryptionKeyCallout(state, calloutDismiss)
    /\ calloutLog' = Append(calloutLog, [event |-> "state", visible |-> calloutVisible'])
    /\ UNCHANGED calloutDismiss
    /\ UNCHANGED notCallout

\* a click of the Dismiss button, which only the visible callout has
onClickDismissButton ==
    /\ Len(calloutLog) < MaxRenders
    /\ calloutVisible
    /\ calloutDismiss' = TRUE
    /\ calloutVisible' = MissingEncryptionKeyCallout(encryptionKeyState, calloutDismiss')
    /\ calloutLog' = Append(calloutLog, [event |-> "dismiss", visible |-> calloutVisible'])
    /\ UNCHANGED encryptionKeyState
    /\ UNCHANGED notCallout

\* mounted, the action state not loaded yet
CalloutInit ==
    /\ encryptionKeyState = NotLoaded
    /\ calloutDismiss = FALSE
    /\ calloutLog = <<>>
    /\ calloutVisible = MissingEncryptionKeyCallout(encryptionKeyState, calloutDismiss)

CalloutNext ==
    \/ \E state \in EncryptionKeyStates : ActionStateChanges(state)
    \/ onClickDismissButton

(***************************************************************************)
(* TestRunsTable: page and sort state, and the row click                   *)
(***************************************************************************)
\* the highest page index a criteria carries
MaxPageIndex == 1

\* pagination.pageSizeOptions
pageSizeOptions == {10, 20, 50}

Pages == [index : 0..MaxPageIndex, size : pageSizeOptions]

SortableField == {"timestamp", "monitor.status", "monitor.duration.us"}

Sorts == [field : SortableField, direction : {"asc", "desc"}]

\* a criteria member that is undefined
NotPassed == <<>>

Criterias == [page : {NotPassed} \cup Pages, sort : {NotPassed} \cup Sorts]

\* as handleTableChange, with a sort that also returns to the first page
handleTableChange_FirstPage(state, criteria) ==
    [page |-> IF criteria.sort # NotPassed THEN [index |-> 0, size |-> state.page.size]
              ELSE IF criteria.page # NotPassed THEN criteria.page ELSE state.page,
     sortField |-> IF criteria.sort # NotPassed THEN criteria.sort.field ELSE state.sortField,
     sortDirection |->
         IF criteria.sort # NotPassed THEN criteria.sort.direction ELSE state.sortDirection]

\* the three states after handleTableChange({ page: newPage, sort })
handleTableChange(state, criteria) ==
    [page |-> IF criteria.page # NotPassed THEN criteria.page ELSE state.page,
     sortField |-> IF criteria.sort # NotPassed THEN criteria.sort.field ELSE state.sortField,
     sortDirection |->
         IF criteria.sort # NotPassed THEN criteria.sort.direction ELSE state.sortDirection]

tableState == [page |-> pageState, sortField |-> sortField, sortDirection |-> sortDirection]

\* EuiBasicTable calls onChange
TableChange(criteria) ==
    /\ pageState' = handleTableChange(tableState, criteria).page
    /\ sortField' = handleTableChange(tableState, criteria).sortField
    /\ sortDirection' = handleTableChange(tableState, criteria).sortDirection
    /\ handled' = [type |-> "change", criteria |-> criteria, before |-> tableState]
    /\ pushed' = <<>>
    /\ UNCHANGED notRuns

BROWSER == "browser"

\* the rows: pings by monitor type and check group
Pings == [monitor : [type : {BROWSER, "http", "tcp"}, check_group : {"group-1", "group-2"}]]

\* evt.target: its tagName and the classList of its parentElement, <<>> for
\* a target without a parent
Targets ==
    [tagName : {"IMG", "path", "TD"},
     parentElement : {<<>>, [classList |-> {"euiLink"}], [classList |-> {"euiTableRowCell"}]}]

\* getTestRunDetailRelativeLink of the monitor in the URL and the selected location
getTestRunDetailRelativeLink(checkGroup) ==
    [monitorId |-> "monitor-1", checkGroup |-> checkGroup, locationId |-> "location-1"]

\* as getRowProps, with a handler on the rows of every monitor type
getRowProps_AnyMonitor(item) == [onClick |-> TRUE]

\* whether the row of a ping gets the onClick handler
getRowProps(item) ==
    IF item.monitor.type # BROWSER THEN [onClick |-> FALSE] ELSE [onClick |-> TRUE]

\* targetElem.parentElement?.classList.contains('euiLink')
parentIsLink(targetElem) ==
    IF targetElem.parentElement = <<>> THEN FALSE
    ELSE "euiLink" \in targetElem.parentElement.classList

\* the handler: what it passes to history.push, <<>> when it pushes nothing
onClick(item, targetElem) ==
    IF /\ targetElem.tagName # "IMG"
       /\ targetElem.tagName # "path"
       /\ ~parentIsLink(targetElem)
    THEN <<getTestRunDetailRelativeLink(item.monitor.check_group)>>
    ELSE <<>>

\* a click inside the row of a ping
RowClick(item, targetElem) ==
    /\ handled' = [type |-> "click", item |-> item, target |-> targetElem]
    /\ pushed' = IF getRowProps(item).onClick THEN onClick(item, targetElem) ELSE <<>>
    /\ UNCHANGED <<pageState, sortField, sortDirection>>
    /\ UNCHANGED notRuns

RunsInit ==
    /\ pageState = [index |-> 0, size |-> 10]
    /\ sortField = "timestamp"
    /\ sortDirection = "desc"
    /\ handled = <<>>
    /\ pushed = <<>>

RunsNext ==
    \/ \E criteria \in Criterias : TableChange(criteria)
    \/ \E item \in Pings, targetElem \in Targets : RowClick(item, targetElem)

(***************************************************************************)
(* MessageSigningService: values                                           *)
(***************************************************************************)
Callers == {1, 2}

\* '' / undefined / a missing attribute: every falsy string
Empty == <<>>

\* keyPair.privateKey.toString('base64') and keyPair.publicKey.toString('base64')
\* of the k-th generated pair
PrivateKeyOf(k) == <<"private", k>>
PublicKeyOf(k) == <<"public", k>>

\* randomBytes(32).toString('hex') drawn for the k-th generated pair
generatePassphrase(k) == <<"random", k>>

\* what a caller may pass as providedPassphrase (Empty: argument omitted)
ProvidedPassphrases == {Empty, <<"provided">>}

Messages == {"m1", "m2"}

MessageSigningKeys(id, privateKey, publicKey, passphrase, passphrasePlain) ==
    [id |-> id, private_key |-> privateKey, public_key |-> publicKey,
     passphrase |-> passphrase, passphrase_plain |-> passphrasePlain]

\* soDoc === undefined
NoDoc == MessageSigningKeys(0, Empty, Empty, Empty, Empty)

KeyPair(privateKey, publicKey, passphrase) ==
    [privateKey |-> privateKey, publicKey |-> publicKey, passphrase |-> passphrase]

NoKeyPair == KeyPair(Empty, Empty, Empty)

\* the value a finished call hands to its caller
NoValue == [kind |-> "none", keyPair |-> NoKeyPair, data |-> "", signature |-> Empty,
            publicKey |-> Empty, bool |-> FALSE]
KeyPairValue(kp) == [NoValue EXCEPT !.kind = "keyPair", !.keyPair = kp]
SignatureValue(msg, sig) == [NoValue EXCEPT !.kind = "signature", !.data = msg,
                                            !.signature = sig]
PublicKeyValue(pk) == [NoValue EXCEPT !.kind = "publicKey", !.publicKey = pk]
BoolValue(b) == [NoValue EXCEPT !.kind = "boolean", !.bool = b]

\* signer.sign({ key: privateKey, passphrase, format: 'der', type: 'pkcs8' }, 'base64')
SignerSign(privateKey, passphrase, msg) == <<"SHA256", privateKey, passphrase, msg>>

(***************************************************************************)
(* The saved-objects store                                                 *)
(***************************************************************************)
\* finder.find() with perPage 1, sortField created_at, sortOrder desc:
\* result.saved_objects[0] of the first page, undefined when nothing is found
getCurrentKeyPairObj(s) == IF s = <<>> THEN NoDoc ELSE s[Len(s)]

HasId(s, id) == \E i \in DOMAIN s : s[i].id = id

\* soClient.create(type, attributes)
SoCreate(s, id, attrs) == Append(s, [attrs EXCEPT !.id = id])

\* soClient.update(type, id, attributes): the given attributes replace the stored ones
SoUpdate(s, id, attrs) ==
    [i \in DOMAIN s |-> IF s[i].id = id THEN [attrs EXCEPT !.id = id] ELSE s[i]]

\* soClient.delete(type, id)
SoDelete(s, id) == SelectSeq(s, LAMBDA o : o.id # id)

(***************************************************************************)
(* MessageSigningService: the pure parts of the handlers                   *)
(***************************************************************************)
\* as isEncryptionAvailable, for a service that takes an encryption key for granted
isEncryptionAvailable_Always == TRUE

\* this.isEncryptionAvailable
isEncryptionAvailable == canEncrypt

NoExistingKeyPair == [existing |-> FALSE, update |-> FALSE, keyPair |-> NoKeyPair,
                      attrs |-> NoDoc]

\* as checkForExistingKeyPair, but reading the passphrase from `passphrase` alone
checkForExistingKeyPair_EncryptedOnly(currentKeyPair, encryptionAvailable) ==
    LET privateKey == currentKeyPair.private_key
        publicKey == currentKeyPair.public_key
        passphrase == currentKeyPair.passphrase
    IN  IF currentKeyPair.id = 0 THEN NoExistingKeyPair
        ELSE IF privateKey = Empty \/ publicKey = Empty \/ passphrase = Empty
        THEN NoExistingKeyPair
        ELSE [existing |-> TRUE, update |-> FALSE,
              keyPair |-> KeyPair(privateKey, publicKey, passphrase),
              attrs |-> currentKeyPair]

\* as checkForExistingKeyPair, without the test for empty attributes
checkForExistingKeyPair_AnyObject(currentKeyPair, encryptionAvailable) ==
    IF currentKeyPair.id = 0 THEN NoExistingKeyPair
    ELSE [existing |-> TRUE, update |-> FALSE,
          keyPair |-> KeyPair(currentKeyPair.private_key, currentKeyPair.public_key,
                              currentKeyPair.passphrase),
          attrs |-> currentKeyPair]

\* checkForExistingKeyPair on the document getCurrentKeyPairObj returned:
\* existing = a key pair is returned, update = soClient.update is awaited first,
\* attrs = { ...attributes, passphrase, passphrase_plain: '' }
checkForExistingKeyPair(currentKeyPair, encryptionAvailable) ==
    LET privateKey == currentKeyPair.private_key
        publicKey == currentKeyPair.public_key
        passphraseEncrypted == currentKeyPair.passphrase
        passphrasePlain == currentKeyPair.passphrase_plain
        passphrase == IF passphraseEncrypted # Empty THEN passphraseEncrypted
                      ELSE passphrasePlain
    IN  IF currentKeyPair.id = 0 THEN NoExistingKeyPair
        ELSE IF privateKey = Empty \/ publicKey = Empty \/ passphrase = Empty
        THEN NoExistingKeyPair
        ELSE [existing |-> TRUE,
              update |-> passphrasePlain # Empty /\ encryptionAvailable,
              keyPair |-> KeyPair(privateKey, publicKey, passphrase),
              attrs |-> [currentKeyPair EXCEPT !.passphrase = passphrase,
                                               !.passphrase_plain = Empty]]

\* providedPassphrase || this.generatePassphrase()
choosePassphrase(providedPassphrase, k) ==
    IF providedPassphrase # Empty THEN providedPassphrase ELSE generatePassphrase(k)

\* as keypairSoObject, with the two branches of the toggle exchanged
keypairSoObject_Swapped(k, passphrase, encryptionAvailable) ==
    IF encryptionAvailable
    THEN MessageSigningKeys(0, PrivateKeyOf(k), PublicKeyOf(k), Empty, passphrase)
    ELSE MessageSigningKeys(0, PrivateKeyOf(k), PublicKeyOf(k), passphrase, Empty)

\* keypairSoObject as generateKeyPair builds it for the k-th generated pair
keypairSoObject(k, passphrase, encryptionAvailable) ==
    IF encryptionAvailable
    THEN MessageSigningKeys(0, PrivateKeyOf(k), PublicKeyOf(k), passphrase, Empty)
    ELSE MessageSigningKeys(0, PrivateKeyOf(k), PublicKeyOf(k), Empty, passphrase)

\* as afterGenerateKeyPair, with getPublicKey destructuring privateKey
afterGenerateKeyPair_WrongField(op, msg, kp) ==
    CASE op = "generateKeyPair" -> [error |-> "", value |-> KeyPairValue(kp)]
      [] op = "sign" ->
            [error |-> "",
             value |-> SignatureValue(msg, SignerSign(kp.privateKey, kp.passphrase, msg))]
      [] op = "getPublicKey" -> [error |-> "", value |-> PublicKeyValue(kp.privateKey)]
      [] op = "rotateKeyPair" -> [error |-> "", value |-> BoolValue(TRUE)]

\* what each public method does with the key pair generateKeyPair resolved to:
\* [error |-> "" or the message of the Error it throws, value |-> what it returns]
afterGenerateKeyPair(op, msg, kp) ==
    CASE op = "generateKeyPair" -> [error |-> "", value |-> KeyPairValue(kp)]
      [] op = "sign" ->
            IF kp.privateKey = Empty
            THEN [error |-> "unable to find private key", value |-> NoValue]
            ELSE IF kp.passphrase = Empty
            THEN [error |-> "unable to find passphrase", value |-> NoValue]
            ELSE [error |-> "",
                  value |-> SignatureValue(msg, SignerSign(kp.privateKey, kp.passphrase, msg))]
      [] op = "getPublicKey" ->
            IF kp.publicKey = Empty
            THEN [error |-> "unable to find public key", value |-> NoValue]
            ELSE [error |-> "", value |-> PublicKeyValue(kp.publicKey)]
      [] op = "rotateKeyPair" -> [error |-> "", value |-> BoolValue(TRUE)]

\* as rotateKeyPairNext, without the test of isRemoved
rotateKeyPairNext_Always(isRemoved) == "find"

\* as storeError, with a catch that turns the rejection into `false`
storeError_Swallowed(step) == [error |-> "", value |-> BoolValue(FALSE)]

\* rotateKeyPair after removeKeyPair resolved to isRemoved: go on to
\* await this.generateKeyPair(), or return false
rotateKeyPairNext(isRemoved) == IF isRemoved THEN "find" ELSE "return false"

\* getCurrentKeyPairObj: finder.close() follows the for-await loop, so it is not
\* called when finder.find() rejects; when createPointInTimeFinder rejects there
\* is no finder, and the other store operations run after the close
findersLeftOpen(step) == IF step = "find" THEN 1 ELSE 0

\* as storeError, with a handler that replaces the rejection by an error of its own
storeError_Wrapped(step) == [error |-> "operation failed", value |-> NoValue]

\* a rejected store operation: no handler catches it, the call rejects with it
storeError(step) == [error |-> step, value |-> NoValue]

(***************************************************************************)
(* MessageSigningService: calls in flight                                  *)
(***************************************************************************)
Idle == [op |-> "none", pc |-> "idle", provided |-> Empty, msg |-> "",
         doc |-> NoDoc, removed |-> NoDoc, attrs |-> NoDoc, keyPair |-> NoKeyPair,
         storeBefore |-> <<>>, soSeqBefore |-> 0, faults |-> <<>>,
         creates |-> 0, updates |-> 0, deletes |-> 0, afterLostKeyPair |-> FALSE]

NoOutcome == [op |-> "none", outcome |-> "none", error |-> "", value |-> NoValue,
              keyPair |-> NoKeyPair, doc |-> NoDoc, removed |-> NoDoc, faults |-> <<>>,
              storeBefore |-> <<>>, soSeqBefore |-> 0, storeAfter |-> <<>>,
              creates |-> 0, updates |-> 0, deletes |-> 0, afterSign |-> Empty,
              encryptionAvailable |-> FALSE, afterLostKeyPair |-> FALSE]

InFlight == {q \in Callers : call[q].pc # "idle"}

\* the record of a call that ends now: c is the call with its counters up to date,
\* res what it resolves or rejects with, s the store it leaves
Outcome(c, res, s) ==
    [op |-> c.op,
     outcome |-> IF res.error = "" THEN "ok" ELSE "error",
     error |-> res.error, value |-> res.value,
     keyPair |-> c.keyPair, doc |-> c.doc, removed |-> c.removed, faults |-> c.faults,
     storeBefore |-> c.storeBefore, soSeqBefore |-> c.soSeqBefore, storeAfter |-> s,
     creates |-> c.creates, updates |-> c.updates, deletes |-> c.deletes,
     afterSign |-> signedWith, encryptionAvailable |-> canEncrypt,
     afterLostKeyPair |-> c.afterLostKeyPair]

\* history: r is the outcome of a rotateKeyPair call whose delete succeeded and
\* whose create failed
rotationLostKeyPair(r) ==
    r.op = "rotateKeyPair" /\ r.deletes = 1 /\ r.faults = <<"create">>

\* history: the private key of the last sign, forgotten when a later call other than
\* a getPublicKey creates a key pair (or, in RotateKeyPair, when a rotation begins)
signedAfter(c, created) ==
    IF c.op = "sign" THEN c.keyPair.privateKey
    ELSE IF created /\ c.op # "getPublicKey" THEN Empty
    ELSE signedWith

Begin(p, op, provided, msg, pc) ==
    /\ call[p].pc = "idle"
    /\ calls < MaxCalls
    /\ calls' = calls + 1
    /\ call' = [call EXCEPT ![p] = [Idle EXCEPT !.op = op, !.pc = pc,
                                               !.provided = provided, !.msg = msg,
                                               !.storeBefore = store,
                                               !.afterLostKeyPair =
                                                   rotationLostKeyPair(last[p]),
                                               !.soSeqBefore = soSeq]]

\* the call of p ends: generateKeyPair resolved to c.keyPair, or a store step failed
Resolve(p, c, s) ==
    LET res == afterGenerateKeyPair(c.op, c.msg, c.keyPair)
    IN  /\ call' = [call EXCEPT ![p] = Idle]
        /\ last' = [last EXCEPT ![p] = Outcome(c, res, s)]
        /\ usedPairs' = usedPairs \cup {c.keyPair}

Reject(p, step, s) ==
    LET c == [call[p] EXCEPT !.faults = Append(@, step)]
    IN  /\ call' = [call EXCEPT ![p] = Idle]
        /\ last' = [last EXCEPT ![p] = Outcome(c, storeError(step), s)]
        /\ everFaulted' = TRUE
        /\ openFinders' = openFinders + findersLeftOpen(step)
        /\ UNCHANGED <<store, soSeq, keySeq, canEncrypt, createLog, usedPairs,
                       everRotated, signedWith, calls>>

(***************************************************************************)
(* MessageSigningService: actions.  Every await of a store operation is a  *)
(* step of its own, the synchronous code up to the next await runs with it *)
(***************************************************************************)
GenerateKeyPair(p, providedPassphrase) ==
    /\ UNCHANGED notKeys
    /\ Begin(p, "generateKeyPair", providedPassphrase, "", "find")
    /\ UNCHANGED <<store, soSeq, keySeq, canEncrypt, last, createLog, usedPairs,
                   everRotated, everFaulted, signedWith, openFinders>>

Sign(p, message) ==
    /\ UNCHANGED notKeys
    /\ Begin(p, "sign", Empty, message, "find")
    /\ UNCHANGED <<store, soSeq, keySeq, canEncrypt, last, createLog, usedPairs,
                   everRotated, everFaulted, signedWith, openFinders>>

GetPublicKey(p) ==
    /\ UNCHANGED notKeys
    /\ Begin(p, "getPublicKey", Empty, "", "find")
    /\ UNCHANGED <<store, soSeq, keySeq, canEncrypt, last, createLog, usedPairs,
                   everRotated, everFaulted, signedWith, openFinders>>

RotateKeyPair(p) ==
    /\ UNCHANGED notKeys
    /\ Begin(p, "rotateKeyPair", Empty, "", "removeFind")
    /\ everRotated' = TRUE
    /\ signedWith' = Empty
    /\ UNCHANGED <<store, soSeq, keySeq, canEncrypt, last, createLog, usedPairs,
                   everFaulted, openFinders>>

\* generateKeyPair: await this.checkForExistingKeyPair() up to its first store write
CheckForExisting(p) ==
    /\ UNCHANGED notKeys
    /\ call[p].pc = "find"
    /\ \/ Reject(p, "createFinder", store)
       \/ Reject(p, "find", store)
       \/ /\ UNCHANGED <<store, soSeq, canEncrypt, createLog, everRotated, everFaulted,
                         calls, openFinders>>
          /\ LET c == call[p]
                 chk == checkForExistingKeyPair(getCurrentKeyPairObj(store),
                                                isEncryptionAvailable)
                 c1 == [c EXCEPT !.doc = getCurrentKeyPairObj(store),
                                 !.attrs = chk.attrs, !.keyPair = chk.keyPair]
                 k == keySeq + 1
                 passphrase == choosePassphrase(c.provided, k)
             IN  IF chk.existing
                 THEN /\ UNCHANGED keySeq
                      /\ IF chk.update
                         THEN /\ call' = [call EXCEPT ![p] = [c1 EXCEPT !.pc = "update"]]
                              /\ UNCHANGED <<last, usedPairs, signedWith>>
                         ELSE /\ Resolve(p, c1, store)
                              /\ signedWith' = signedAfter(c1, FALSE)
                 ELSE /\ keySeq' = k
                      /\ call' = [call EXCEPT ![p] =
                            [c EXCEPT !.pc = "create",
                                      !.attrs = keypairSoObject(k, passphrase,
                                                                isEncryptionAvailable),
                                      !.keyPair = KeyPair(PrivateKeyOf(k), PublicKeyOf(k),
                                                          passphrase)]]
                      /\ UNCHANGED <<last, usedPairs, signedWith>>

\* checkForExistingKeyPair: await this.soClient.update(...), then return the key pair
EncryptPassphrase(p) ==
    /\ UNCHANGED notKeys
    /\ call[p].pc = "update"
    /\ \/ Reject(p, "update", store)
       \/ /\ HasId(store, call[p].doc.id)
          /\ LET c == [call[p] EXCEPT !.updates = @ + 1]
                 s == SoUpdate(store, c.doc.id, c.attrs)
             IN  /\ store' = s
                 /\ Resolve(p, c, s)
                 /\ signedWith' = signedAfter(c, FALSE)
          /\ UNCHANGED <<soSeq, keySeq, canEncrypt, createLog, everRotated, everFaulted,
                         calls, openFinders>>

\* generateKeyPair: await this.soClient.create(...), then return the new key pair
CreateKeyPair(p) ==
    /\ UNCHANGED notKeys
    /\ call[p].pc = "create"
    /\ \/ Reject(p, "create", store)
       \/ LET id == soSeq + 1
              s == SoCreate(store, id, call[p].attrs)
              c == [call[p] EXCEPT !.creates = @ + 1, !.doc = s[Len(s)]]
          IN  /\ store' = s
              /\ soSeq' = id
              /\ createLog' = Append(createLog, [doc |-> s[Len(s)],
                                               encryptionAvailable |-> isEncryptionAvailable])
              /\ Resolve(p, c, s)
              /\ signedWith' = signedAfter(c, TRUE)
              /\ UNCHANGED <<keySeq, canEncrypt, everRotated, everFaulted, calls, openFinders>>

\* removeKeyPair: await this.getCurrentKeyPairObj(); with nothing to remove,
\* rotateKeyPair continues at once with isRemoved = false
RemoveFind(p) ==
    /\ UNCHANGED notKeys
    /\ call[p].pc = "removeFind"
    /\ \/ Reject(p, "createFinder", store)
       \/ Reject(p, "find", store)
       \/ /\ UNCHANGED <<store, soSeq, keySeq, canEncrypt, createLog, usedPairs,
                         everRotated, everFaulted, signedWith, calls, openFinders>>
          /\ LET c == call[p]
                 currentKeyPair == getCurrentKeyPairObj(store)
             IN  IF currentKeyPair.id # 0
                 THEN /\ call' = [call EXCEPT ![p] = [c EXCEPT !.pc = "delete",
                                                              !.removed = currentKeyPair]]
                      /\ UNCHANGED last
                 ELSE IF rotateKeyPairNext(FALSE) = "return false"
                 THEN /\ call' = [call EXCEPT ![p] = Idle]
                      /\ last' = [last EXCEPT ![p] =
                            Outcome(c, [error |-> "", value |-> BoolValue(FALSE)], store)]
                 ELSE /\ call' = [call EXCEPT ![p] =
                            [c EXCEPT !.pc = rotateKeyPairNext(FALSE)]]
                      /\ UNCHANGED last

\* removeKeyPair: await this.soClient.delete(...); rotateKeyPair continues with
\* isRemoved = true
RemoveDelete(p) ==
    /\ UNCHANGED notKeys
    /\ call[p].pc = "delete"
    /\ \/ Reject(p, "delete", store)
       \/ /\ HasId(store, call[p].removed.id)
          /\ store' = SoDelete(store, call[p].removed.id)
          /\ call' = [call EXCEPT ![p] = [@ EXCEPT !.pc = rotateKeyPairNext(TRUE),
                                                   !.deletes = @ + 1]]
          /\ UNCHANGED <<soSeq, keySeq, canEncrypt, last, createLog, usedPairs,
                         everRotated, everFaulted, signedWith, calls, openFinders>>

\* Kibana is restarted with or without xpack.encryptedSavedObjects.encryptionKey
SetEncryptionKey ==
    /\ UNCHANGED notKeys
    /\ InFlight = {}
    /\ canEncrypt' = ~canEncrypt
    /\ UNCHANGED <<store, soSeq, keySeq, call, last, createLog, usedPairs,
                   everRotated, everFaulted, signedWith, calls, openFinders>>

KeysInit ==
    /\ store = <<>>
    /\ soSeq = 0
    /\ keySeq = 0
    /\ canEncrypt \in BOOLEAN
    /\ call = [p \in Callers |-> Idle]
    /\ last = [p \in Callers |-> NoOutcome]
    /\ createLog = <<>>
    /\ usedPairs = {}
    /\ everRotated = FALSE
    /\ everFaulted = FALSE
    /\ signedWith = Empty
    /\ calls = 0
    /\ openFinders = 0

\* a store that holds one key-pair object when the service is constructed: written
\* by an earlier run with or without an encryption key, or with attributes missing
StoredKeys ==
    {MessageSigningKeys(1, privateKey, publicKey, passphrase, passphrasePlain) :
        privateKey \in {Empty, PrivateKeyOf(0)}, publicKey \in {Empty, PublicKeyOf(0)},
        passphrase \in {Empty, <<"stored">>},
        passphrasePlain \in {Empty, <<"stored plain">>}}

StoredKeysInit ==
    /\ store \in {<<doc>> : doc \in StoredKeys}
    /\ soSeq = 1
    /\ keySeq = 0
    /\ canEncrypt \in BOOLEAN
    /\ call = [p \in Callers |-> Idle]
    /\ last = [p \in Callers |-> NoOutcome]
    /\ createLog = <<>>
    /\ usedPairs = {}
    /\ everRotated = FALSE
    /\ everFaulted = FALSE
    /\ signedWith = Empty
    /\ calls = 0
    /\ openFinders = 0

ServiceStep(p) ==
    \/ \E providedPassphrase \in ProvidedPassphrases : GenerateKeyPair(p, providedPassphrase)
    \/ \E message \in Messages : Sign(p, message)
    \/ GetPublicKey(p)
    \/ RotateKeyPair(p)
    \/ CheckForExisting(p)
    \/ EncryptPassphrase(p)
    \/ CreateKeyPair(p)
    \/ RemoveFind(p)
    \/ RemoveDelete(p)

\* one caller: every call runs to its end before the next begins
SequentialNext == ServiceStep(1) \/ SetEncryptionKey

\* two callers whose calls interleave at the awaits
ConcurrentNext == (\E p \in Callers : ServiceStep(p)) \/ SetEncryptionKey

\* the provider mounted with every optional prop omitted, no application yet
CasesIdle ==
    /\ CasesInit
    /\ props.basePath = Undefined
    /\ application = [appId |-> Undefined, appTitle |-> Undefined]

\* the form mounted in create mode
SloIdle == SloInit /\ slo = Undefined

\* the three components added last, as mounted
WidgetsInit == AlertsInit /\ CalloutInit /\ RunsInit

\* the table without deleteItems, row actions or selected items
TableIdle ==
    /\ TableInit
    /\ ~tableProps.deleteItems
    /\ tableProps.tableItemsRowActions = <<>>
    /\ tableProps.selectedIds = <<>>

Init == KeysInit /\ RoutesInit /\ ChromeInit /\ CasesIdle /\ SloIdle /\ TableIdle /\ WidgetsInit

Spec == Init /\ [][SequentialNext]_vars

SpecConcurrent == Init /\ [][ConcurrentNext]_vars

\* the idle signing service, beside the other leaves
KeysIdle == KeysInit /\ canEncrypt = FALSE

\* every leaf idle
IdleInit == KeysIdle /\ RoutesInit /\ ChromeInit /\ CasesIdle /\ SloIdle /\ TableIdle /\ WidgetsInit

SpecRoutes == IdleInit /\ [][RoutesNext]_vars

SpecChrome == IdleInit /\ [][ChromeNext]_vars

CasesSpecInit == KeysIdle /\ RoutesInit /\ ChromeInit /\ CasesInit /\ SloIdle /\ TableIdle /\ WidgetsInit

SpecCases == CasesSpecInit /\ [][CasesNext]_vars

SloSpecInit == KeysIdle /\ RoutesInit /\ ChromeInit /\ CasesIdle /\ SloInit /\ TableIdle /\ WidgetsInit

SpecSlo == SloSpecInit /\ [][SloNext]_vars

SpecTable == IdleInit /\ [][TableNext]_vars

SpecAlerts == IdleInit /\ [][AlertsNext]_vars

SpecCallout == IdleInit /\ [][CalloutNext]_vars

SpecRuns == IdleInit /\ [][RunsNext]_vars

StoredInit ==
    StoredKeysInit /\ RoutesInit /\ ChromeInit /\ CasesIdle /\ SloIdle /\ TableIdle /\ WidgetsInit

\* the sequential service on a store that already holds a key-pair object
SpecStored == StoredInit /\ [][SequentialNext]_vars

(***************************************************************************)
(* MessageSigningService: properties                                       *)
(***************************************************************************)
\* the newest object of a store, and the passphrase it carries in either attribute
Newest(s) == s[Len(s)]
PassphraseIn(doc) == IF doc.passphrase # Empty THEN doc.passphrase ELSE doc.passphrase_plain
IsComplete(doc) ==
    doc.private_key # Empty /\ doc.public_key # Empty /\ PassphraseIn(doc) # Empty
PairIn(doc) == KeyPair(doc.private_key, doc.public_key, PassphraseIn(doc))
Finished(p) == last[p].outcome # "none"
Succeeded(p) == last[p].outcome = "ok"

\* a value handed to a caller is, or is made with, the key pair kp
MadeWith(v, kp) ==
    CASE v.kind = "keyPair" -> v.keyPair = kp
      [] v.kind = "signature" ->
            v.signature = <<"SHA256", kp.privateKey, kp.passphrase, v.data>>
      [] v.kind = "publicKey" -> v.publicKey = kp.publicKey
      [] OTHER -> FALSE

\* C1: generateKeyPair is create-if-missing.  (a) A generateKeyPair call that
\* returns on a store whose newest object is complete returns exactly that object's
\* private key, public key and passphrase and creates nothing.  (b) In a sequential
\* run from the empty store with no rotateKeyPair and no store failure, at most one
\* object is ever created, and every finished generateKeyPair / sign / getPublicKey
\* call returned, or signed with, the key pair of that one created object.
C1_CreateIfMissing ==
    /\ \A p \in Callers :
          LET r == last[p] IN
          (r.op = "generateKeyPair" /\ r.outcome = "ok" /\ r.storeBefore # <<>>
                /\ IsComplete(Newest(r.storeBefore)))
             => /\ r.value = KeyPairValue(PairIn(Newest(r.storeBefore)))
                /\ r.creates = 0
                /\ r.storeAfter = r.storeBefore \/ r.updates = 1
    /\ (~everRotated /\ ~everFaulted) =>
          /\ Len(createLog) <= 1
          /\ soSeq = Len(createLog)
          /\ \A p \in Callers :
                Succeeded(p) =>
                   /\ Len(createLog) = 1
                   /\ MadeWith(last[p].value, PairIn(createLog[1].doc))
          /\ usedPairs \subseteq {PairIn(createLog[i].doc) : i \in DOMAIN createLog}

\* C1 witness: a second call, a generateKeyPair, has returned the existing key pair
\* of a non-empty store without creating, in a run with no rotation and no failure
C1_Witness ==
    /\ ~everRotated /\ ~everFaulted
    /\ calls >= 2
    /\ last[1].op = "generateKeyPair" /\ last[1].outcome = "ok"
    /\ last[1].storeBefore # <<>>
    /\ last[1].creates = 0
    /\ Len(createLog) = 1

\* C2: every object created by generateKeyPair carries its passphrase in the
\* attribute `passphrase` iff encryption was available when it was created, and in
\* `passphrase_plain` otherwise: exactly one of the two attributes is non-empty, and
\* a call that created an object returned the passphrase stored in it.
C2_PassphraseToggle ==
    /\ \A i \in DOMAIN createLog :
          LET e == createLog[i] IN
          /\ (e.doc.passphrase # Empty) <=> e.encryptionAvailable
          /\ (e.doc.passphrase_plain # Empty) <=> ~e.encryptionAvailable
    /\ \A p \in Callers :
          (Succeeded(p) /\ last[p].creates = 1) =>
             \E i \in DOMAIN createLog :
                /\ createLog[i].doc.id = last[p].doc.id
                /\ last[p].keyPair.passphrase =
                      (IF createLog[i].encryptionAvailable
                       THEN createLog[i].doc.passphrase
                       ELSE createLog[i].doc.passphrase_plain)

\* C2 witness: objects have been created both with and without encryption
C2_Witness ==
    /\ \E i \in DOMAIN createLog : createLog[i].encryptionAvailable
    /\ \E i \in DOMAIN createLog : ~createLog[i].encryptionAvailable

\* C3: after rotateKeyPair returns true, the key pair that was current before (the
\* object the call found and removed) is no longer in the store, and the current
\* key pair is one generated during that call: the newest object of the store is
\* newer than every object created before the call began.
C3_RotateYieldsFreshKeyPair ==
    \A p \in Callers :
       LET r == last[p] IN
       (r.op = "rotateKeyPair" /\ r.outcome = "ok" /\ r.value.bool)
          => /\ r.removed.id # 0
             /\ ~HasId(r.storeAfter, r.removed.id)
             /\ r.storeAfter # <<>>
             /\ Newest(r.storeAfter).id > r.soSeqBefore

\* C4: a rotateKeyPair call begun on an empty store leaves the store empty and
\* performs no delete, create or update, at every step and when it ends; when it
\* returns, it returns false.
C4_RotateOnEmptyStore ==
    /\ \A p \in Callers :
          LET r == last[p] IN
          (r.op = "rotateKeyPair" /\ r.storeBefore = <<>>)
             => /\ r.outcome = "ok" => r.value = BoolValue(FALSE)
                /\ r.storeAfter = <<>>
                /\ r.creates = 0 /\ r.deletes = 0 /\ r.updates = 0
    /\ \A p \in Callers :
          LET c == call[p] IN
          (c.op = "rotateKeyPair" /\ c.storeBefore = <<>>)
             => /\ store = <<>>
                /\ c.pc = "removeFind"
                /\ c.creates = 0 /\ c.deletes = 0 /\ c.updates = 0

\* C4 witness: a rotateKeyPair call on the empty store has returned false
C4_Witness ==
    /\ last[1].op = "rotateKeyPair" /\ last[1].storeBefore = <<>>
    /\ last[1].outcome = "ok" /\ last[1].value = BoolValue(FALSE)
    /\ store = <<>>

\* C5: a call during which a store operation (find, create, update, delete) failed
\* ends at that operation with that error and hands back no key, signature or
\* boolean; a call ends with an error only so; and a generateKeyPair call whose find
\* or create failed leaves the store as it was before the call.
C5_ErrorsPropagate ==
    /\ \A p \in Callers : call[p].faults = <<>>
    /\ \A p \in Callers :
          LET r == last[p] IN
          /\ r.faults # <<>> =>
                /\ Len(r.faults) = 1
                /\ r.outcome = "error"
                /\ r.error = r.faults[1]
                /\ r.value = NoValue
          /\ r.outcome = "error" => r.faults # <<>>
          /\ (r.op = "generateKeyPair" /\ r.faults # <<>>
                 /\ r.faults[1] \in {"find", "create"})
                => r.storeAfter = r.storeBefore

\* C5 witness: the create of a generateKeyPair call has failed
C5_Witness ==
    /\ last[1].op = "generateKeyPair"
    /\ last[1].faults = <<"create">>
    /\ last[1].outcome = "error"

\* C6: a sign call that returns signed the message with the private key and
\* passphrase of the key pair that is current when it returns, which is the one that
\* was current when it began unless the store was empty, and then the store holds
\* exactly one object, created by the call; a getPublicKey call that returns while
\* the key of the last sign has not been superseded (no rotateKeyPair begun and no
\* create by another call since) returns the public key of the pair sign used.
C6_SignAndGetPublicKeyAgree ==
    \A p \in Callers :
       LET r == last[p] IN
       /\ (r.op = "sign" /\ r.outcome = "ok") =>
             /\ r.storeAfter # <<>>
             /\ r.value.kind = "signature"
             /\ MadeWith(r.value, PairIn(Newest(r.storeAfter)))
             /\ r.storeBefore # <<>> => MadeWith(r.value, PairIn(Newest(r.storeBefore)))
             /\ r.storeBefore = <<>> => (Len(r.storeAfter) = 1 /\ r.creates = 1)
       /\ (r.op = "getPublicKey" /\ r.outcome = "ok" /\ r.afterSign # Empty) =>
             /\ r.value.kind = "publicKey"
             /\ r.value.publicKey = <<"public", r.afterSign[2]>>
             /\ r.creates = 0

\* C6 witness: sign created the key pair on an empty store and a later
\* getPublicKey returned the public key of that pair
C6_Witness ==
    /\ last[1].op = "getPublicKey" /\ last[1].outcome = "ok"
    /\ last[1].afterSign # Empty
    /\ Len(createLog) = 1
    /\ last[1].value.publicKey = createLog[1].doc.public_key

\* the object getCurrentKeyPairObj found for the last call of the sequential
\* caller, and whether that call was a generateKeyPair, sign or getPublicKey
\* call that ran to its end
FoundByLast == getCurrentKeyPairObj(last[1].storeBefore)
LastUsedKeyPair ==
    /\ last[1].op \in {"generateKeyPair", "sign", "getPublicKey"}
    /\ last[1].outcome = "ok"

\* the object with its passphrase moved to `passphrase`
Migrated(doc) == [doc EXCEPT !.passphrase = PassphraseIn(doc), !.passphrase_plain = Empty]

\* C14, as amended: a call that finds a current object with non-empty private
\* key, public key and passphrase_plain while encryption is available updates
\* that object so that `passphrase` holds the passphrase and `passphrase_plain`
\* is empty, creates nothing and uses the same private key, public key and
\* passphrase; a call that finds a complete object without passphrase_plain
\* leaves the store as it is; no call updates while encryption is unavailable.
C14_PassphraseMigration ==
    /\ (LastUsedKeyPair /\ IsComplete(FoundByLast)
           /\ FoundByLast.passphrase_plain # Empty /\ last[1].encryptionAvailable)
          => /\ last[1].updates = 1 /\ last[1].creates = 0
             /\ last[1].storeAfter =
                   [last[1].storeBefore EXCEPT ![Len(last[1].storeBefore)] =
                       Migrated(FoundByLast)]
             /\ last[1].keyPair = PairIn(FoundByLast)
    /\ (LastUsedKeyPair /\ IsComplete(FoundByLast)
           /\ FoundByLast.passphrase_plain = Empty)
          => /\ last[1].updates = 0
             /\ last[1].storeAfter = last[1].storeBefore
    /\ ~last[1].encryptionAvailable => last[1].updates = 0
    /\ call[1].pc = "update" => canEncrypt

\* a sign call has migrated a stored plain passphrase, and the migrated object
\* is the current one
C14_Witness ==
    /\ last[1].op = "sign" /\ last[1].outcome = "ok"
    /\ FoundByLast = MessageSigningKeys(1, PrivateKeyOf(0), PublicKeyOf(0), Empty,
                                        <<"stored plain">>)
    /\ last[1].updates = 1
    /\ store = <<MessageSigningKeys(1, PrivateKeyOf(0), PublicKeyOf(0),
                                    <<"stored plain">>, Empty)>>
    /\ last[1].keyPair = KeyPair(PrivateKeyOf(0), PublicKeyOf(0), <<"stored plain">>)

\* C14, as stated: whenever the current object carries a non-empty
\* passphrase_plain and encryption is available, the call updates the object
\* and uses the key pair it held.
C14_MigratesAnyPlainPassphrase ==
    (LastUsedKeyPair /\ FoundByLast.passphrase_plain # Empty
        /\ last[1].encryptionAvailable)
       => /\ last[1].updates = 1
          /\ last[1].storeAfter =
                [last[1].storeBefore EXCEPT ![Len(last[1].storeBefore)] =
                    Migrated(FoundByLast)]
          /\ last[1].keyPair = PairIn(FoundByLast)

\* C15: a rotateKeyPair call whose delete succeeded and whose create failed
\* ends with the error of the create and no value, and leaves the store
\* without the object it removed and without a new one; the next
\* generateKeyPair, sign or getPublicKey call whose store operations succeed
\* creates one object and uses its key pair.
C15_NoRecoveryThenCreate ==
    /\ rotationLostKeyPair(last[1])
          => /\ last[1].outcome = "error" /\ last[1].error = "create"
             /\ last[1].value = NoValue
             /\ last[1].removed = Newest(last[1].storeBefore)
             /\ ~HasId(last[1].storeAfter, last[1].removed.id)
             /\ Len(last[1].storeAfter) = Len(last[1].storeBefore) - 1
             /\ \A i \in DOMAIN last[1].storeAfter :
                   last[1].storeAfter[i] = last[1].storeBefore[i]
    /\ (last[1].afterLostKeyPair /\ last[1].faults = <<>>
           /\ last[1].op \in {"generateKeyPair", "sign", "getPublicKey"})
          => /\ last[1].outcome = "ok"
             /\ last[1].creates = 1
             /\ last[1].storeAfter =
                   Append(last[1].storeBefore, Newest(last[1].storeAfter))
             /\ Newest(last[1].storeAfter).id = last[1].soSeqBefore + 1
             /\ last[1].keyPair = PairIn(Newest(last[1].storeAfter))
             /\ IsComplete(Newest(last[1].storeAfter))

\* a getPublicKey call after such a rotation has created the second key pair
C15_Witness ==
    /\ last[1].afterLostKeyPair
    /\ last[1].op = "getPublicKey" /\ last[1].outcome = "ok"
    /\ last[1].storeBefore = <<>>
    /\ last[1].value = PublicKeyValue(PublicKeyOf(3))
    /\ Len(store) = 1 /\ store[1].id = 2

\* C16: while only generateKeyPair, sign and getPublicKey calls have been made
\* on the store that began empty, however they interleave, at most one
\* key-pair object has been created and the calls that finished all returned
\* or used the same key pair.
C16_OneKeyPairUnderInterleaving ==
    ~everRotated => Len(createLog) <= 1 /\ Cardinality(usedPairs) <= 1

\* C17: a generateKeyPair call that finds a newest object whose private key,
\* public key or both passphrase attributes are empty, and whose store
\* operations succeed, creates one new complete object after the objects that
\* were there, which it leaves as they were, and returns the key pair of the
\* new object.
C17_IncompleteTreatedAsMissing ==
    (last[1].op = "generateKeyPair" /\ last[1].faults = <<>>
        /\ FoundByLast.id # 0 /\ ~IsComplete(FoundByLast))
       => /\ last[1].outcome = "ok"
          /\ last[1].creates = 1 /\ last[1].updates = 0 /\ last[1].deletes = 0
          /\ last[1].storeAfter =
                Append(last[1].storeBefore, Newest(last[1].storeAfter))
          /\ Newest(last[1].storeAfter).id = last[1].soSeqBefore + 1
          /\ IsComplete(Newest(last[1].storeAfter))
          /\ last[1].keyPair = PairIn(Newest(last[1].storeAfter))
          /\ last[1].value = KeyPairValue(last[1].keyPair)
          /\ last[1].keyPair.privateKey # FoundByLast.private_key
          /\ last[1].keyPair.publicKey # FoundByLast.public_key

\* a generateKeyPair call has found an object without a private key and has
\* created the second object beside it
C17_Witness ==
    /\ last[1].op = "generateKeyPair" /\ last[1].outcome = "ok"
    /\ FoundByLast = MessageSigningKeys(1, Empty, PublicKeyOf(0), <<"stored">>, Empty)
    /\ Len(store) = 2
    /\ store[1] = FoundByLast
    /\ store[2].private_key = PrivateKeyOf(1)
    /\ last[1].value = KeyPairValue(KeyPair(PrivateKeyOf(1), PublicKeyOf(1),
                                            <<"provided">>))

\* C18: whenever no getCurrentKeyPairObj call is between creating its finder
\* and returning or throwing, every finder created so far has been closed.
C18_FindersClosed == openFinders = 0

(***************************************************************************)
(* Trained-models routes: properties                                       *)
(***************************************************************************)
ModelsRoute == "GET /api/ml/trained_models/{modelId?}"
PipelinesRoute == "GET /api/ml/trained_models/{modelId}/pipelines"

Handled == clientLog # <<>>

\* what the handler's first (primary) client call did
Primary == clientLog[1].outcome

\* body is the primary call's result as the route hands it on
CarriesResult(body) ==
    CASE request.route = ModelsRoute ->
            /\ DOMAIN body = DOMAIN Primary.body
            /\ \A i \in DOMAIN body :
                  /\ body[i].model_id = Primary.body[i].model_id
                  /\ body[i].model_aliases = Primary.body[i].model_aliases
      [] request.route = PipelinesRoute ->
            /\ \A id \in DOMAIN Primary.body :
                  Primary.body[id] # {} =>
                     [model_id |-> id, pipelines |-> Primary.body[id]] \in body
            /\ \A entry \in body : Primary.body[entry.model_id] = entry.pipelines
      [] OTHER -> body = Primary.body

\* C7: every handler answers a request with exactly one response and lets no
\* exception escape; the response is customError(wrapError(e)) for the error e
\* its primary client call threw, and otherwise ok carrying that call's result.
C7_OneResponsePerRequest ==
    Handled =>
       /\ Len(responses) = 1
       /\ ~escaped
       /\ IF Primary.threw
          THEN responses[1] = ResponseCustomError(wrapError(Primary.error))
          ELSE responses[1].kind = "ok" /\ CarriesResult(responses[1].body)

\* a proxied call threw and the handler answered customError
C7_Witness ==
    /\ Handled
    /\ request.route = "PUT /api/ml/trained_models/{modelId}"
    /\ Primary.threw
    /\ responses = <<ResponseCustomError(wrapError("e403"))>>

\* a client call after the primary one threw
FailedAfterPrimary == \E i \in 2 .. Len(clientLog) : clientLog[i].outcome.threw

\* C8: with with_pipelines set, when getTrainedModelsStats or
\* getModelsPipelines throws the handler logs that error at debug level and
\* answers ok with the configs getTrainedModels returned; it answers
\* customError exactly when getTrainedModels itself threw.
C8_PipelinesFailureOnlyLogged ==
    (Handled /\ request.route = ModelsRoute /\ request.withPipelines) =>
       /\ (~Primary.threw /\ FailedAfterPrimary) =>
             /\ responses = <<ResponseOk(Primary.body)>>
             /\ debugLog = <<clientLog[Len(clientLog)].outcome.error>>
       /\ Len(responses) = 1
       /\ responses[1].kind = "customError" <=> Primary.threw

\* the pipelines lookup threw after stats succeeded, and the answer was ok
C8_Witness ==
    /\ Handled /\ request.route = ModelsRoute /\ request.withPipelines
    /\ Len(clientLog) = 3
    /\ clientLog[3].outcome.threw
    /\ Primary.body # <<>>
    /\ responses = <<ResponseOk(Primary.body)>>
    /\ debugLog = <<"e403">>

\* the ids whose pipelines a config is to get: its model_id, its aliases and
\* the deployment ids of the stats entries that name its model_id
IdsOf(model, stats) ==
    {model.model_id} \cup Range(model.model_aliases)
       \cup {stats[j].deployment_id :
                j \in {k \in DOMAIN stats : /\ stats[k].model_id = model.model_id
                                            /\ stats[k].deployment_id # ""}}

\* C19: with with_pipelines set and the stats and pipelines lookups succeeding,
\* the handler answers with the configs getTrainedModels returned, each with a
\* pipelines field that holds exactly the pipelines the pipelines response has
\* for the config's model_id, for one of its aliases or for a deployment id of
\* a stats entry with that model_id and deployment_stats; with with_pipelines
\* not set, getTrainedModels is the only call and no config in the answer has
\* a pipelines field.
C19_PipelinesUnion ==
    (Handled /\ request.route = ModelsRoute /\ ~Primary.threw) =>
       IF request.withPipelines
       THEN /\ Len(clientLog) >= 2 /\ clientLog[2].api = "getTrainedModelsStats"
            /\ (Len(clientLog) = 3 /\ ~clientLog[2].outcome.threw
                   /\ ~clientLog[3].outcome.threw)
                  => /\ clientLog[3].api = "getModelsPipelines"
                     /\ Len(responses) = 1 /\ responses[1].kind = "ok"
                     /\ DOMAIN responses[1].body = DOMAIN Primary.body
                     /\ \A i \in DOMAIN Primary.body :
                           /\ responses[1].body[i].model_id = Primary.body[i].model_id
                           /\ responses[1].body[i].model_aliases =
                                 Primary.body[i].model_aliases
                           /\ responses[1].body[i].hasPipelines
                           /\ \A name \in {"p1", "p2", "p3"} :
                                 name \in responses[1].body[i].pipelines <=>
                                    \E id \in IdsOf(Primary.body[i],
                                                    clientLog[2].outcome.body) :
                                       name \in clientLog[3].outcome.body[id]
                           /\ responses[1].body[i].pipelines \subseteq {"p1", "p2", "p3"}
       ELSE /\ Len(clientLog) = 1 /\ clientLog[1].api = "getTrainedModels"
            /\ responses = <<ResponseOk(Primary.body)>>
            /\ \A i \in DOMAIN responses[1].body : ~responses[1].body[i].hasPipelines

\* two configs, three stats entries of which one has no deployment_stats:
\* m1 got the pipelines of its model_id, its alias a1 and its deployment d2,
\* m2 none
C19_Witness ==
    /\ Handled /\ request.route = ModelsRoute /\ request.withPipelines
    /\ Len(clientLog) = 3
    /\ Len(clientLog[2].outcome.body) = 3
    /\ Len(responses) = 1 /\ responses[1].kind = "ok"
    /\ Len(responses[1].body) = 2
    /\ responses[1].body[1].pipelines = {"p1", "p2", "p3"}
    /\ responses[1].body[2].hasPipelines
    /\ responses[1].body[2].pipelines = {}

(***************************************************************************)
(* Set*Chrome: properties                                                  *)
(***************************************************************************)
Rendered == chrome # ""

\* the trail the component was rendered with
GivenTrail == trailOrDefault(trailProp)

\* t is s read backwards
IsReverseOf(t, s) ==
    /\ Len(t) = Len(s)
    /\ \A i \in 1 .. Len(s) : t[i] = s[Len(s) + 1 - i]

\* the last n elements of s
LastOf(s, n) == [i \in 1 .. n |-> s[Len(s) - n + i]]

\* C9: the document title starts with the trail in reverse order and the
\* breadcrumbs end with the trail in its own order; reverseArray returns its
\* argument reversed in a new array and leaves the argument as it was, and
\* reversing twice gives the trail back.
C9_TitleReversedTrailKept ==
    Rendered =>
       LET n == Len(GivenTrail)
           once == reverseArray(<<GivenTrail>>, 1)
           twice == reverseArray(once.arrays, once.ret)
       IN  /\ Len(docTitle) = n + 1
           /\ IsReverseOf(SubSeq(docTitle, 1, n), GivenTrail)
           /\ Len(breadcrumbs) >= n
           /\ LastOf(breadcrumbs, n) = [i \in 1 .. n |-> Crumb(GivenTrail[i])]
           /\ arrays[1] = GivenTrail
           /\ once.ret # 1
           /\ IsReverseOf(once.arrays[once.ret], GivenTrail)
           /\ once.arrays[1] = GivenTrail
           /\ twice.arrays[twice.ret] = GivenTrail
           /\ twice.arrays[once.ret] = once.arrays[once.ret]

\* the example of the doc comment, rendered
C9_Witness ==
    /\ chrome = "SetAppSearchChrome"
    /\ GivenTrail = <<"Engines", "Example Engine Name", "Curations">>
    /\ docTitle = <<"Curations", "Example Engine Name", "Engines", "App Search">>
    /\ breadcrumbs = <<Crumb("Enterprise Search"), Crumb("App Search"), Crumb("Engines"),
                       Crumb("Example Engine Name"), Crumb("Curations")>>
    /\ arrays[1] = <<"Engines", "Example Engine Name", "Curations">>

(***************************************************************************)
(* CasesProvider: properties                                               *)
(***************************************************************************)
\* C10: owner, basePath, features, releasePhase, dispatch and the two
\* attachment-type registries of the context value are those the first
\* render captured, whatever props and application later renders bring;
\* permissions, appId and appTitle are the only fields that differ from them.
C10_OnlyPermissionsAndAppUpdated ==
    /\ value.owner = captured.owner
    /\ value.basePath = captured.basePath
    /\ value.features = captured.features
    /\ value.releasePhase = captured.releasePhase
    /\ value.dispatch = captured.dispatch
    /\ value.externalReferenceAttachmentTypeRegistry =
          captured.externalReferenceAttachmentTypeRegistry
    /\ value.persistableStateAttachmentTypeRegistry =
          captured.persistableStateAttachmentTypeRegistry
    /\ output.kind # "error" => value.permissions.fields = props.permissions.fields

\* every prop has changed since the first render, and only the permissions
\* and the application have reached the context value
C10_Witness ==
    /\ props.owner # captured.owner
    /\ orDefault(props.basePath, DEFAULT_BASE_PATH) # captured.basePath
    /\ merge(DEFAULT_FEATURES, props.features) # captured.features
    /\ orDefault(props.releasePhase, "ga") # captured.releasePhase
    /\ props.externalReferenceAttachmentTypeRegistry #
          captured.externalReferenceAttachmentTypeRegistry
    /\ props.persistableStateAttachmentTypeRegistry #
          captured.persistableStateAttachmentTypeRegistry
    /\ value.permissions = Permissions("o2", "read")
    /\ captured.permissions = Permissions("o1", "all")
    /\ value.appId = "observability-overview"
    /\ value.appTitle = "Security"

\* the owner the last render was given is non-empty and its first is registered
OwnerRegistered == Len(props.owner) > 0 /\ isRegisteredOwner(props.owner[1])

\* the FilesContext client for the first owner of the last render
OwnerFilesClient == getFilesClient(constructFileKindIdByOwner(props.owner[1]))

\* C11, as amended: once the context value holds appId and appTitle, the
\* render wraps the children in a FilesContext for owner[0] exactly when the
\* owner list is non-empty and owner[0] is registered, renders them bare with
\* an empty owner list, and throws the invalid-owner error with an
\* unregistered first owner; before that it renders nothing and throws nothing.
C11_FilesContextOnceRendered ==
    IF isCasesContextValue(value)
    THEN /\ OwnerRegistered <=> output.kind = "FilesContext"
         /\ OwnerRegistered => output.client = OwnerFilesClient
         /\ Len(props.owner) = 0 <=> output.kind = "children"
         /\ (Len(props.owner) > 0 /\ ~OwnerRegistered) <=>
               output = Rendering("error", <<>>, InvalidOwnerError)
    ELSE output = RendersNull

\* an unregistered owner reached a provider that renders: the render threw
C11_Witness ==
    /\ isCasesContextValue(value)
    /\ props.owner = <<"unregistered">>
    /\ output = Rendering("error", <<>>, InvalidOwnerError)

\* C11, as stated: whatever the context value, the children are in a
\* FilesContext exactly when owner[0] is registered, bare with an empty owner
\* list, and the render throws with an unregistered first owner.
C11_FilesContextByOwner ==
    /\ OwnerRegistered <=> output.kind = "FilesContext"
    /\ Len(props.owner) = 0 => output.kind = "children"
    /\ (Len(props.owner) > 0 /\ ~OwnerRegistered) => output.kind = "error"

\* useApplication has returned a non-empty appId together with a non-empty
\* appTitle in some render so far
EverReady == lastReady.appId # Undefined

\* C20, as amended: until appId and appTitle have been non-empty in one render
\* the provider renders nothing; from then on the context value holds the last
\* pair of non-empty appId and appTitle, whatever useApplication returns
\* later, and the render gives the provider, or throws the invalid-owner error
\* when the first owner is not registered.
C20_ProviderOnceReady ==
    IF EverReady
    THEN /\ value.appId = lastReady.appId
         /\ value.appTitle = lastReady.appTitle
         /\ output.kind \in {"FilesContext", "children", "error"}
         /\ output.kind = "error" <=> (Len(props.owner) > 0 /\ ~OwnerRegistered)
    ELSE output = RendersNull

\* the provider is rendered with the pair of an application that useApplication
\* no longer returns: the appTitle it returns now is undefined
C20_Witness ==
    /\ EverReady
    /\ application = [appId |-> "observability-overview", appTitle |-> Undefined]
    /\ lastReady = [appId |-> "securitySolutionUI", appTitle |-> "Security"]
    /\ value.appId = "securitySolutionUI" /\ value.appTitle = "Security"
    /\ output.kind = "FilesContext"

\* C20, as stated: nothing is rendered until appId and appTitle have been
\* non-empty together, and from then on the provider is rendered with the
\* last such pair.
C20_KeepsRenderingProvider ==
    IF EverReady
    THEN /\ value.appId = lastReady.appId
         /\ value.appTitle = lastReady.appTitle
         /\ output.kind \in {"FilesContext", "children"}
    ELSE output = RendersNull

(***************************************************************************)
(* SloEditForm: properties                                                 *)
(***************************************************************************)
\* C12: a handleSubmit call whose request succeeded showed one success toast
\* and navigated once, to the create-rule url of the saved SLO if the checkbox
\* was checked when it navigated and to the SLO list otherwise.
C12_NavigatesByCheckbox ==
    lastSubmit.outcome = "saved" =>
       /\ lastSubmit.toasts = 1
       /\ lastSubmit.navigations = 1
       /\ lastSubmit.target = IF lastSubmit.checkedAtEnd
                              THEN createRuleUrl(lastSubmit.id) ELSE slosUrl

(***************************************************************************)
(* content-management Table: properties                                    *)
(***************************************************************************)
\* the row action of an item says delete.enabled === false
DeleteDisabled(id) ==
    /\ id \in DOMAIN tableProps.tableItemsRowActions
    /\ "delete" \in DOMAIN tableProps.tableItemsRowActions[id]
    /\ "enabled" \in DOMAIN tableProps.tableItemsRowActions[id].delete
    /\ ~tableProps.tableItemsRowActions[id].delete.enabled

\* the reason configured for an item, or the default label
ReasonOrDefault(id) ==
    IF "reason" \in DOMAIN tableProps.tableItemsRowActions[id].delete
    THEN tableProps.tableItemsRowActions[id].delete.reason
    ELSE "Actions disabled for this item"

\* C13: the table offers selection only when deleteItems is provided; an item
\* whose row action has delete.enabled === false is then not selectable and
\* shows the configured reason or 'Actions disabled for this item', every
\* other item is selectable; the 'Delete N <entity>' button is rendered
\* exactly when deleteItems is provided and at least one item is selected.
C13_SelectionAndDeleteButton ==
    /\ tableOut.selection # <<>> => tableProps.deleteItems
    /\ \A id \in Items :
          tableOut.selection # <<>> =>
             IF DeleteDisabled(id)
             THEN /\ ~tableOut.selection[1].selectable[id]
                  /\ tableOut.selection[1].selectableMessage[id] = ReasonOrDefault(id)
             ELSE tableOut.selection[1].selectable[id]
    /\ tableOut.toolsLeft # <<>> <=>
          (tableProps.deleteItems /\ Len(tableProps.selectedIds) >= 1)
    /\ tableOut.toolsLeft # <<>> =>
          /\ tableOut.toolsLeft[1] = "Delete"
          /\ tableOut.toolsLeft[2] = Len(tableProps.selectedIds)
          /\ tableOut.toolsLeft[3] \in {"dashboard", "dashboards"}

\* a render with deleteItems and one item selected, where one item's delete is
\* disabled with a reason, one without, disabled items aside
C13_Witness ==
    /\ tableProps.deleteItems
    /\ tableProps.selectedIds = <<"a">>
    /\ DeleteDisabled("a") /\ DeleteDisabled("b")
    /\ tableOut.selection # <<>>
    /\ ~tableOut.selection[1].selectable["a"]
    /\ tableOut.selection[1].selectableMessage["a"] = "in use"
    /\ tableOut.selection[1].selectableMessage["b"] = "Actions disabled for this item"
    /\ tableOut.toolsLeft = <<"Delete", 1, "dashboard">>

(***************************************************************************)
(* SloEditForm: properties, continued                                      *)
(***************************************************************************)
\* C21: a handleSubmit call that ended at a failed validation sent no request,
\* showed no toast and did not navigate; one whose create or update request
\* failed showed one toast, an error toast, and did not navigate.  No toast
\* is shown without a request, and no error toast comes with a navigation.
C21_NothingOnInvalidErrorOnFailure ==
    /\ lastSubmit.outcome = "invalid"
          => /\ lastSubmit.request = ""
             /\ lastSubmit.toasts = 0
             /\ lastSubmit.navigations = 0
    /\ lastSubmit.outcome = "failed"
          => /\ lastSubmit.request \in {"createSlo", "updateSlo"}
             /\ lastSubmit.toasts = 1
             /\ toasts[Len(toasts)] = "error"
             /\ lastSubmit.navigations = 0
    /\ Len(toasts) <= Len(requests)
    /\ Len(SelectSeq(toasts, LAMBDA t : t = "success")) + 1 >= Len(navigations)

\* both ways of failing have happened: a request failed with its error toast,
\* then a validation failed and nothing was added
C21_Witness ==
    /\ lastSubmit.outcome = "invalid"
    /\ submits = 2
    /\ requests = <<"updateSlo">>
    /\ toasts = <<"error">>
    /\ navigations = <<>>
    /\ ~unmounted

\* C22: in edit mode with at least one rule fetched for the SLO the checkbox
\* is unchecked whenever the effects have run, and a handleSubmit call that
\* then succeeds navigates to the SLO list.
C22_ExistingRuleNeverCreateRule ==
    /\ (slo # Undefined /\ rules = "some") => ~isChecked
    /\ (lastSubmit.outcome = "saved" /\ slo # Undefined
           /\ lastSubmit.rulesAtEnd = "some")
          => /\ ~lastSubmit.checkedAtEnd
             /\ lastSubmit.target = slosUrl

(***************************************************************************)
(* AlertsByStatus: properties                                              *)
(***************************************************************************)
\* C23: while the panel is expanded, the EuiText above the donuts holds the
\* formatted count and the alerts label of the total to display whenever
\* that total is not zero, and holds nothing when it is zero; the total to
\* display is the visualization total with donut embeddables enabled, and
\* otherwise 0 while loading or without data and the sum of the open,
\* acknowledged and closed totals else.
C23_TotalShownWhenNonZero ==
    alertsProps.toggleStatus =>
        alertsTotal.text = IF totalAlertsCount(alertsProps) # 0
                           THEN <<totalAlertsCount(alertsProps)>>
                           ELSE <<>>

(***************************************************************************)
(* MissingEncryptionKeyCallout: properties                                 *)
(***************************************************************************)
\* the Dismiss button was clicked at some render of the log
Dismissed(log) == \E i \in 1..Len(log) : log[i].event = "dismiss"

\* C24: the callout is visible exactly when the action state has loaded,
\* canEncrypt is not true and the callout has not been dismissed; from the
\* click of Dismiss on, no render shows it again.
C24_VisibleUntilDismissed ==
    /\ calloutVisible <=>
           /\ encryptionKeyState # NotLoaded
           /\ encryptionKeyState.data.canEncrypt # <<TRUE>>
           /\ ~Dismissed(calloutLog)
    /\ \A i \in 1..Len(calloutLog) : \A j \in i..Len(calloutLog) :
           calloutLog[i].event = "dismiss" => ~calloutLog[j].visible

\* the callout was dismissed, and afterwards the action state came to say
\* that nothing can be encrypted
C24_Witness ==
    /\ Dismissed(calloutLog)
    /\ calloutLog[Len(calloutLog)].event = "state"
    /\ encryptionKeyState # NotLoaded
    /\ encryptionKeyState.data.canEncrypt = <<FALSE>>
    /\ ~calloutVisible

(***************************************************************************)
(* TestRunsTable: properties                                               *)
(***************************************************************************)
RowClicked == handled # <<>> /\ handled.type = "click"

isImage(targetElem) == targetElem.tagName = "IMG"

isSvgPath(targetElem) == targetElem.tagName = "path"

\* C25: a row click navigates to the test-run detail page only when the
\* row's ping is of a browser monitor and the target is not an image, not an
\* SVG path and not a child of a link; a click on the row of another
\* monitor type pushes nothing.
C25_RowClickNavigation ==
    RowClicked =>
        /\ pushed # <<>> =>
               /\ handled.item.monitor.type = BROWSER
               /\ ~isImage(handled.target)
               /\ ~isSvgPath(handled.target)
               /\ ~parentIsLink(handled.target)
               /\ pushed = <<getTestRunDetailRelativeLink(handled.item.monitor.check_group)>>
        /\ handled.item.monitor.type # BROWSER => pushed = <<>>

\* a cell of a browser row was clicked and the detail page of its check
\* group was pushed
C25_Witness ==
    /\ RowClicked
    /\ handled.item.monitor.type = BROWSER
    /\ handled.target.tagName = "TD"
    /\ pushed = <<getTestRunDetailRelativeLink("group-2")>>

TableChanged == handled # <<>> /\ handled.type = "change"

\* C26: the table starts at page index 0 with page size 10, sorted by
\* timestamp descending; handleTableChange replaces the page only when the
\* criteria carries one, and the sort field and direction only when the
\* criteria carries a sort.
C26_ChangeOnlyWhatCriteriaCarries ==
    /\ handled = <<>> =>
           /\ pageState = [index |-> 0, size |-> 10]
           /\ sortField = "timestamp"
           /\ sortDirection = "desc"
    /\ TableChanged =>
           /\ pageState = IF handled.criteria.page = NotPassed
                          THEN handled.before.page
                          ELSE handled.criteria.page
           /\ IF handled.criteria.sort = NotPassed
              THEN /\ sortField = handled.before.sortField
                   /\ sortDirection = handled.before.sortDirection
              ELSE /\ sortField = handled.criteria.sort.field
                   /\ sortDirection = handled.criteria.sort.direction

\* on the second page, a criteria with a sort and no page was handled: the
\* sort changed and the page stayed
C26_Witness ==
    /\ TableChanged
    /\ handled.criteria.page = NotPassed
    /\ handled.criteria.sort # NotPassed
    /\ handled.before.page.index = 1
    /\ handled.before.sortField # sortField
    /\ pageState.index = 1

====
